---------------------------- MODULE Spec2Model ----------------------------
(***************************************************************************)
(* Model of the drone_air_system microcontroller firmware:                 *)
(*   arduino/sensor/sensor.ino      merged LDD + pump controller           *)
(*   arduino/ar_clean/ar_clean.ino  single-device LDD controller           *)
(*   arduino/libraries/MeComAPI/src/ArduinoSerial/ArduinoSerial.cpp        *)
(*                                  RS485 transport adapter                *)
(*                                                                         *)
(* Text is modelled as sequences of one-character strings.  A float is a   *)
(* record [nan, m] with m the value in thousandths.  A line printed on the *)
(* host link is a record [kind, words, fields, echo].                      *)
(***************************************************************************)
EXTENDS Integers, Sequences, FiniteSets, TLC

\* ------------------------------------------------------------------ bounds
\* Number of telemetry periods the clock may advance before the model stops.
MaxPeriods == 2
\* Tachometer pulses the model lets arrive between two telemetry ticks.
MaxPulses == 1
\* The same in the behaviours that are about the tachometer.
MaxTachPulses == 6
MaxIsrPulses == 2
MaxIsrRows == 2
\* Bytes the Serial receive buffer holds.
MaxRx == 3
\* How far beyond 0..100 the inputs of setPumpSpeed go.
MaxPumpInput == 130
\* Receive calls made on the bus adapter in one run of the receive model.
MaxCalls == 2
\* Longest time (ms) one iteration of the receive loop may take.
MaxStepMs == 2
\* Send calls of the bus adapter in one behaviour.
MaxSends == 2
\* Receive calls in one behaviour of the bus adapter with its sends.
MaxBusCalls == 1
\* Stand-ins for the MePort.h constants, whose header is not part of src/.
MEPORT_MAX_RX_BUF_SIZE == 3
MEPORT_SET_AND_QUERY_TIMEOUT == 3

\* ------------------------------------------------------- program constants
PULSES_PER_REV == 6
TELEMETRY_PERIOD_MS == 100
MERGED_PERIOD_MS == 1000
CMD_BUF_SIZE == 128
CMD_LINE_MAX == 120
INIT_SPEED_PERCENT == 40
Out_min == 1638
Out_max == 14746
\* P_min and P_max (0.0 bar and 1.6 bar) in millibar.
P_min_mb == 0
P_max_mb == 1600
PAR_RESET == 111
PAR_SETC == 2102
PAR_SETT == 4000
INST_MON == 1
INST_COMMON == 1
\* width of int (16 bit on the AVR target) and of uint32_t / long
IntBits == 16

Pow2(n) == 2 ^ n
Min(a, b) == IF a < b THEN a ELSE b
Max(a, b) == IF a > b THEN a ELSE b
Abs(a) == IF a < 0 THEN -a ELSE a
INT_MAX == Pow2(IntBits - 1) - 1
INT_MIN == -Pow2(IntBits - 1)
LONG_MIN == -2147483647 - 1

\* ------------------------------------------------------------ characters
SP == " "
TAB == "\t"
Digits == <<"0", "1", "2", "3", "4", "5", "6", "7", "8", "9">>
LowerAlpha == <<"a", "b", "c", "e", "f", "g", "i", "n", "o", "p", "r", "s", "t", "w", "x">>
UpperAlpha == <<"A", "B", "C", "E", "F", "G", "I", "N", "O", "P", "R", "S", "T", "W", "X">>

IsDigit(c) == \E i \in 1..Len(Digits) : Digits[i] = c
DigitVal(c) == (CHOOSE i \in 1..Len(Digits) : Digits[i] = c) - 1

\* toupper(): lower-case letters map to upper case, all else is unchanged.
toupper(c) ==
  IF \E i \in 1..Len(LowerAlpha) : LowerAlpha[i] = c
  THEN UpperAlpha[CHOOSE i \in 1..Len(LowerAlpha) : LowerAlpha[i] = c]
  ELSE c

UpperStr(s) == [i \in 1..Len(s) |-> toupper(s[i])]

\* The blanks handleCommandLine of sensor.ino skips: ' ' and '\t'.
IsBlank(c) == c = SP \/ c = TAB
\* isspace() as used by String::trim and atoi/atof, on the model's alphabet.
isspace(c) == c = SP \/ c = TAB

RECURSIVE SkipBlanks(_)
SkipBlanks(s) ==
  IF s # <<>> /\ IsBlank(Head(s)) THEN SkipBlanks(Tail(s)) ELSE s

RECURSIVE SkipSpace(_)
SkipSpace(s) ==
  IF s # <<>> /\ isspace(Head(s)) THEN SkipSpace(Tail(s)) ELSE s

RECURSIVE DropTrailingSpace(_)
DropTrailingSpace(s) ==
  IF s # <<>> /\ isspace(s[Len(s)])
  THEN DropTrailingSpace(SubSeq(s, 1, Len(s) - 1))
  ELSE s

\* String::trim(): strips isspace characters at both ends.
Trim(s) == DropTrailingSpace(SkipSpace(s))

\* strchr / String::indexOf: index of the first c in s, 0 when there is none.
IndexOf(s, c) ==
  IF \E i \in 1..Len(s) : s[i] = c
  THEN CHOOSE i \in 1..Len(s) : s[i] = c /\ \A j \in 1..(i - 1) : s[j] # c
  ELSE 0

\* ------------------------------------------------------ number conversion
\* Leading run of decimal digits of s.
RECURSIVE DigitRun(_)
DigitRun(s) ==
  IF s # <<>> /\ IsDigit(Head(s)) THEN <<Head(s)>> \o DigitRun(Tail(s)) ELSE <<>>

\* Mathematical value of a digit string, kept below 10^7.
RECURSIVE DigitsValue(_)
DigitsValue(ds) ==
  IF ds = <<>> THEN 0
  ELSE DigitsValue(SubSeq(ds, 1, Len(ds) - 1)) * 10 + DigitVal(ds[Len(ds)])

\* Two's-complement wrap of v to a signed integer of the given width.
WrapSigned(v, bits) ==
  LET m == v % Pow2(bits) IN IF m >= Pow2(bits - 1) THEN m - Pow2(bits) ELSE m

\* Sign and magnitude that atoi/atof read at the front of an argument.
NumSign(s) == IF s # <<>> /\ Head(s) = "-" THEN -1 ELSE 1
NumBody(s) == IF s # <<>> /\ (Head(s) = "-" \/ Head(s) = "+") THEN Tail(s) ELSE s

\* The integer an integer literal denotes, without any width.
AtoiExact(arg) ==
  LET t == SkipSpace(arg) IN NumSign(t) * DigitsValue(DigitRun(NumBody(t)))

\* atoi(): the results the build can return.  A value that fits int is
\* returned as is; one that does not is undefined behaviour: the library
\* accumulates in a 16-bit register (wrap) or saturates.
AtoiOutcomes(arg) ==
  LET v == AtoiExact(arg) IN
  IF INT_MIN <= v /\ v <= INT_MAX THEN {v}
  ELSE {WrapSigned(v, IntBits), IF v < 0 THEN INT_MIN ELSE INT_MAX}

\* A float: not-a-number, or a value in thousandths.
NAN == [nan |-> TRUE, m |-> 0]
Float(m) == [nan |-> FALSE, m |-> m]

\* Up to three fractional digits, as thousandths.
FracMilli(ds) ==
  LET d(i) == IF i <= Len(ds) THEN DigitVal(ds[i]) ELSE 0
  IN d(1) * 100 + d(2) * 10 + d(3)

\* atof() / String::toFloat: leading white space, sign, digits, optional
\* fraction; 0.0 when no number can be read.
atof(arg) ==
  LET t == SkipSpace(arg)
      b == NumBody(t)
      ip == DigitRun(b)
      rest == SubSeq(b, Len(ip) + 1, Len(b))
      fp == IF rest # <<>> /\ Head(rest) = "." THEN DigitRun(Tail(rest)) ELSE <<>>
  IN Float(NumSign(t) * (DigitsValue(ip) * 1000 + FracMilli(fp)))

\* (long)f for a float f: truncation toward zero; the conversion of NaN is
\* undefined, `und` is the value the build yields for it.
FloatToLong(f, und) ==
  IF f.nan THEN und
  ELSE IF f.m >= 0 THEN f.m \div 1000 ELSE -((-f.m) \div 1000)

\* What the build can yield for (long)NAN.
CastNaNOutcomes == {0, LONG_MIN}

\* A constrain that bounds from below only.
constrainLow(x, lo, hi) == IF x < lo THEN lo ELSE x
\* constrain(x, lo, hi)
constrain(x, lo, hi) == IF x < lo THEN lo ELSE IF x > hi THEN hi ELSE x

\* A map that rounds its quotient down.
mapFloor(x, in_min, in_max, out_min, out_max) ==
  ((x - in_min) * (out_max - out_min)) \div (in_max - in_min) + out_min
\* map(x, in_min, in_max, out_min, out_max): integer arithmetic, truncating
\* toward zero.
TruncDiv(a, b) == IF (a >= 0) = (b > 0) THEN Abs(a) \div Abs(b) ELSE -(Abs(a) \div Abs(b))
map(x, in_min, in_max, out_min, out_max) ==
  TruncDiv((x - in_min) * (out_max - out_min), in_max - in_min) + out_min


\* ---------------------------------------------------------- host-link lines
\* One printed field of a line: the token "nan", a text, or a number v in
\* units of 10^-prec.
PrintText(s) == [txt |-> s, v |-> 0, prec |-> 0]
\* Serial.print(long)
PrintLong(n) == [txt |-> "num", v |-> n, prec |-> 0]

Pow10(n) == 10 ^ n
\* Rounding of a magnitude to a multiple of d, half away from zero
\* (Print::printFloat adds 0.5 units of the last digit and truncates).
RoundDiv(m, d) == IF m >= 0 THEN (m + d \div 2) \div d ELSE -((-m + d \div 2) \div d)

\* Serial.print(float, digits): "nan" for NaN, else the value rounded to the
\* given number of decimals.
PrintFloat(f, digits) ==
  IF f.nan THEN PrintText("nan")
  ELSE [txt |-> "num",
        v |-> IF digits <= 3 THEN RoundDiv(f.m, Pow10(3 - digits))
              ELSE f.m * Pow10(digits - 3),
        prec |-> digits]

\* A line on the host link.  kind is "OK" or "ERR" for a command reply (the
\* line's prefix), "row" for a telemetry row, "header" for the CSV header and
\* "info" for the start-up banner lines.
OutLine(kind, words, fields, echo) ==
  [kind |-> kind, words |-> words, fields |-> fields, echo |-> echo]
Reply(kind, words) == OutLine(kind, words, <<>>, <<>>)
ReplyNum(kind, words, field) == OutLine(kind, words, <<field>>, <<>>)

\* printMergedHeader(): the column names of sensor.ino.
printMergedHeader ==
  OutLine("header",
    <<"ms",
      "ErrorNumber", "ErrorInstance", "ErrorParameter", "ErrorText",
      "LDD_ActualOutputCurrent", "LDD_ActualOutputVoltage", "LDD_ActualOutputCurrentRaw",
      "LDD_ActualAnodeVoltage", "LDD_ActualCathodeVoltage",
      "LDD_NominalOutputCurrentRamp",
      "TEC_TargetObjectTemperature", "TEC_NominalObjectTemperatureRamp", "TEC_ThermalPowerModelCurrent",
      "TEC_ActualOutputCurrent", "TEC_ActualOutputVoltage",
      "TEC_ObjectTemperature", "TEC_SinkTemperature",
      "AnalogVoltageInputRawADC", "AnalogVoltageInput",
      "LaserPower", "OutputLevel",
      "DriverInputVoltage", "Internal8V", "Internal5V", "Internal3V3", "InternalMinus3V3",
      "DeviceTemperature", "PowerstageTemperature",
      "pump_rpm", "pressure_mb", "temp_c", "humidity_pct", "power_pct", "pressure_status">>,
    <<>>, <<>>)

\* printHeader(): the column names of ar_clean.ino.
printHeader ==
  OutLine("header",
    <<"ErrorNumber", "ErrorInstance", "ErrorParameter", "ErrorText",
      "LDD_ActualOutputCurrent", "LDD_ActualOutputVoltage", "LDD_ActualOutputCurrentRaw",
      "LDD_ActualAnodeVoltage", "LDD_ActualCathodeVoltage",
      "LDD_NominalOutputCurrentRamp",
      "TEC_TargetObjectTemperature", "TEC_NominalObjectTemperatureRamp", "TEC_ThermalPowerModelCurrent",
      "TEC_ActualOutputCurrent", "TEC_ActualOutputVoltage",
      "TEC_ObjectTemperature", "TEC_SinkTemperature",
      "AnalogVoltageInputRawADC", "AnalogVoltageInput",
      "LaserPower", "OutputLevel",
      "DriverInputVoltage", "Internal8V", "Internal5V", "Internal3V3", "InternalMinus3V3",
      "DeviceTemperature", "PowerstageTemperature">>,
    <<>>, <<>>)

\* printErrorTextField(): neither MeCom_GetErrorString nor MeCom_GetErrorText
\* is a preprocessor macro, so the #else branch is compiled: nothing is
\* printed and the field is blank.
printErrorTextField == PrintText("")

\* ------------------------------------------------------- parameter client
\* Return codes of the MeCom query functions; 1 is success.
Rc == {0, 1}

\* readFloat(parId, inst, okOut): rc is the library's return value, value
\* the f.Value it filled in (thousandths).
readFloat(rc, value) == IF rc = 1 THEN Float(value) ELSE NAN

\* readLong(parId, inst, okOut)
readLong(rc, value) == IF rc = 1 THEN value ELSE -1

\* writeFloat / writeLong: the write issued and what it returned.
WriteRec(par, inst, kind, l, f, rc) ==
  [par |-> par, inst |-> inst, kind |-> kind, l |-> l, f |-> f, rc |-> rc]
writeFloat(parId, inst, value, rc) == WriteRec(parId, inst, "float", 0, value, rc)
writeLong(parId, inst, value, rc) == WriteRec(parId, inst, "long", value, NAN, rc)
\* The test of the write result, and the same test inverted.
WriteRejected(w) == w.rc = 0
WriteOk(w) == w.rc = 1

\* ------------------------------------------------------------ pump actuator
\* setPumpSpeed(speedPercent): the duty value handed to analogWrite.
setPumpSpeed(speedPercent) ==
  map(constrain(speedPercent, 0, 100), 0, 100, 255, 0)


\* -------------------------------------------------------- command dispatcher
V_PING == <<"P", "I", "N", "G">>
V_GET == <<"G", "E", "T">>
V_RESET == <<"R", "E", "S", "E", "T">>
V_SETC == <<"S", "E", "T", "C">>
V_SETT == <<"S", "E", "T", "T">>
V_SETPWR == <<"S", "E", "T", "P", "W", "R">>
V_SETPOWER == <<"S", "E", "T", "P", "O", "W", "E", "R">>

\* A dispatcher result that stops the pump whenever the reply is an error.
EffectStopOnErr(out, writes, speed, pwm, pumpCalls) ==
  IF \E i \in 1..Len(out) : out[i].kind = "ERR"
  THEN [out |-> out, writes |-> writes, speed |-> 0, pwm |-> setPumpSpeed(0), pumpCalls |-> 1]
  ELSE [out |-> out, writes |-> writes, speed |-> speed, pwm |-> pwm, pumpCalls |-> pumpCalls]

\* What a call of handleCommandLine does: the lines it prints, the parameter
\* writes it issues, the commanded speed and the duty value it leaves, and
\* the number of setPumpSpeed calls it makes.
Effect(out, writes, speed, pwm, pumpCalls) ==
  [out |-> out, writes |-> writes, speed |-> speed, pwm |-> pwm, pumpCalls |-> pumpCalls]

\* sensor.ino, handleCommandLine lines 165-183: skip leading blanks, copy at
\* most sizeof(tmp)-1 characters, cut the copy at its first ' ', upper-case
\* it; the argument is the original line after that ' ', leading blanks
\* skipped.  hasArg is the negation of (!arg || !*arg).
SensorParse(line) ==
  LET l == SkipBlanks(line)
      tmp0 == SubSeq(l, 1, Min(Len(l), CMD_BUF_SIZE - 1))
      sp == IndexOf(tmp0, SP)
      tmp == UpperStr(IF sp > 0 THEN SubSeq(tmp0, 1, sp - 1) ELSE tmp0)
      arg == IF sp > 0 THEN SkipBlanks(SubSeq(l, sp + 1, Len(l))) ELSE <<>>
  IN [empty |-> l = <<>>, verb |-> tmp, hasArg |-> sp > 0 /\ arg # <<>>, arg |-> arg]

\* ar_clean.ino, handleCommandLine lines 177-184: trim, split at the first
\* ' ', upper-case the first token.  hasArg is the negation of (sp < 0).
ArParse(line) ==
  LET s == Trim(line)
      sp == IndexOf(s, SP)
      cmd == UpperStr(IF sp > 0 THEN SubSeq(s, 1, sp - 1) ELSE s)
      arg == IF sp > 0 THEN SubSeq(s, sp + 1, Len(s)) ELSE <<>>
  IN [empty |-> s = <<>>, verb |-> cmd, hasArg |-> sp > 0, arg |-> arg]

\* A SETC/SETT reply that does not look at the write's result.
SetFloatReplyOk(name, w, digits) == ReplyNum("OK", <<name>>, PrintFloat(w.f, digits))

\* The reply to a write-backed command with a float argument (SETC, SETT).
SetFloatReply(name, w, digits) ==
  IF WriteOk(w) THEN ReplyNum("OK", <<name>>, PrintFloat(w.f, digits))
  ELSE Reply("ERR", <<name>>)

\* sensor.ino handleCommandLine.  wrc is what the parameter write returns,
\* pct what atoi returns for the argument; speed and pwm are
\* currentSpeedPercent and the duty value before the call.
SensorHandleCommandLine(line, wrc, pct, speed, pwm) ==
  LET p == SensorParse(line) IN
  IF p.empty THEN Effect(<<>>, <<>>, speed, pwm, 0)
  ELSE IF p.verb = V_PING THEN Effect(<<Reply("OK", <<"PONG">>)>>, <<>>, speed, pwm, 0)
  ELSE IF p.verb = V_GET THEN Effect(<<Reply("OK", <<"GET">>)>>, <<>>, speed, pwm, 0)
  ELSE IF p.verb = V_RESET THEN
    LET w == writeLong(PAR_RESET, INST_COMMON, 1, wrc) IN
    Effect(<<Reply(IF WriteOk(w) THEN "OK" ELSE "ERR", <<"RESET">>)>>, <<w>>, speed, pwm, 0)
  ELSE IF p.verb = V_SETC THEN
    IF ~p.hasArg THEN Effect(<<Reply("ERR", <<"SETC", "missing_value">>)>>, <<>>, speed, pwm, 0)
    ELSE LET w == writeFloat(PAR_SETC, INST_MON, atof(p.arg), wrc) IN
         Effect(<<SetFloatReply("SETC", w, 3)>>, <<w>>, speed, pwm, 0)
  ELSE IF p.verb = V_SETT THEN
    IF ~p.hasArg THEN Effect(<<Reply("ERR", <<"SETT", "missing_value">>)>>, <<>>, speed, pwm, 0)
    ELSE LET w == writeFloat(PAR_SETT, INST_MON, atof(p.arg), wrc) IN
         Effect(<<SetFloatReply("SETT", w, 2)>>, <<w>>, speed, pwm, 0)
  ELSE IF p.verb = V_SETPWR \/ p.verb = V_SETPOWER THEN
    IF ~p.hasArg THEN Effect(<<Reply("ERR", <<"SETPWR", "missing_value">>)>>, <<>>, speed, pwm, 0)
    ELSE LET c == constrain(pct, 0, 100) IN
         Effect(<<ReplyNum("OK", <<"SETPWR">>, PrintLong(c))>>, <<>>, c, setPumpSpeed(c), 1)
  ELSE Effect(<<OutLine("ERR", <<"unknown_cmd">>, <<>>, p.verb)>>, <<>>, speed, pwm, 0)

\* A single-device dispatcher that answers GET as the merged one does,
\* without a row.
ArHandleNoRow(line, wrc, row, speed, pwm) ==
  LET p == ArParse(line) IN
  IF ~p.empty /\ p.verb = V_GET THEN Effect(<<Reply("OK", <<"GET">>)>>, <<>>, speed, pwm, 0)
  ELSE Effect(<<Reply("OK", <<"PONG">>)>>, <<>>, speed, pwm, 0)

\* ar_clean.ino handleCommandLine.  row is the line printTelemetryLine
\* prints when it is called now (GET).
ArHandleCommandLine(line, wrc, row, speed, pwm) ==
  LET p == ArParse(line) IN
  IF p.empty THEN Effect(<<>>, <<>>, speed, pwm, 0)
  ELSE IF p.verb = V_PING THEN Effect(<<Reply("OK", <<"PONG">>)>>, <<>>, speed, pwm, 0)
  ELSE IF p.verb = V_GET THEN Effect(<<row, Reply("OK", <<"GET">>)>>, <<>>, speed, pwm, 0)
  ELSE IF p.verb = V_RESET THEN
    LET w == writeLong(PAR_RESET, INST_COMMON, 1, wrc) IN
    Effect(<<Reply(IF WriteOk(w) THEN "OK" ELSE "ERR", <<"RESET">>)>>, <<w>>, speed, pwm, 0)
  ELSE IF p.verb = V_SETC THEN
    IF ~p.hasArg THEN Effect(<<Reply("ERR", <<"SETC", "missing_value">>)>>, <<>>, speed, pwm, 0)
    ELSE LET w == writeFloat(PAR_SETC, INST_MON, atof(p.arg), wrc) IN
         Effect(<<SetFloatReply("SETC", w, 3)>>, <<w>>, speed, pwm, 0)
  ELSE IF p.verb = V_SETT THEN
    IF ~p.hasArg THEN Effect(<<Reply("ERR", <<"SETT", "missing_value">>)>>, <<>>, speed, pwm, 0)
    ELSE LET w == writeFloat(PAR_SETT, INST_MON, atof(p.arg), wrc) IN
         Effect(<<SetFloatReply("SETT", w, 2)>>, <<w>>, speed, pwm, 0)
  ELSE Effect(<<OutLine("ERR", <<"unknown_cmd">>, <<>>, p.verb)>>, <<>>, speed, pwm, 0)


\* ------------------------------------------------------------ local sensors
\* a * b / c for non-negative a * b below 2^31, in thousandths: the quotient
\* to three decimals.
MilliQuot(n, c) == (n \div c) * 1000 + ((n % c) * 1000) \div c

\* A readPressure that takes the status from the top bit of byte1 alone.
readPressureTopBit(byte1, byte2) ==
  LET rawCounts == (byte1 % 64) * 256 + byte2
      status == byte1 \div 128
      num == (rawCounts - Out_min) * (P_max_mb - P_min_mb)
      mb == IF num >= 0 THEN MilliQuot(num, Out_max - Out_min)
            ELSE -MilliQuot(-num, Out_max - Out_min)
  IN [status |-> status,
      pressure_mb |-> IF status = 0 THEN Float(mb + P_min_mb * 1000) ELSE NAN]

\* readPressure(pressure_mb, status): byte1 and byte2 are the two bytes the
\* SPI transfer returns.  status is the top two bits of byte1, the raw count
\* the other 14 bits; the pressure stays NaN unless status is 0.
readPressure(byte1, byte2) ==
  LET rawCounts == (byte1 % 64) * 256 + byte2
      status == (byte1 \div 64) % 4
      num == (rawCounts - Out_min) * (P_max_mb - P_min_mb)
      mb == IF num >= 0 THEN MilliQuot(num, Out_max - Out_min)
            ELSE -MilliQuot(-num, Out_max - Out_min)
  IN [status |-> status,
      pressure_mb |-> IF status = 0 THEN Float(mb + P_min_mb * 1000) ELSE NAN]

\* A rate that leaves out the pulses per revolution.
PumpRpmPerPulse(dp) == Float(dp * 60 * 1000)
\* loop(): pump_rpm = (dp * 60.0f) / (float)PULSES_PER_REV.
PumpRpm(dp) == Float(MilliQuot(dp * 60, PULSES_PER_REV))

\* A readHDCData that zeroes its outputs before it polls.
readHDCDataClearing(et, got, bytes, lowFirst, temp, hum) ==
  IF et # 0 \/ got # 4 THEN [ok |-> FALSE, temp |-> Float(0), hum |-> Float(0)]
  ELSE
    LET word(a, b) == IF lowFirst THEN a + 256 * b ELSE b + 256 * a
    IN [ok |-> TRUE,
        temp |-> Float(MilliQuot(word(bytes[1], bytes[2]) * 165, 65536) - 40000),
        hum |-> Float(MilliQuot(word(bytes[3], bytes[4]) * 100, 65536))]

\* readHDCData(temp, hum): et is what Wire.endTransmission returns, got what
\* Wire.requestFrom returns, bytes the four bytes read.  The two Wire.read()
\* calls of each `Wire.read() | (Wire.read() << 8)` are unsequenced: lowFirst
\* tells whether the left operand was evaluated first.  temp and hum are the
\* caller's values, left alone when the read fails.
readHDCData(et, got, bytes, lowFirst, temp, hum) ==
  IF et # 0 \/ got # 4 THEN [ok |-> FALSE, temp |-> temp, hum |-> hum]
  ELSE
    LET word(a, b) == IF lowFirst THEN a + 256 * b ELSE b + 256 * a
        tRaw == word(bytes[1], bytes[2])
        hRaw == word(bytes[3], bytes[4])
    IN [ok |-> TRUE,
        temp |-> Float(MilliQuot(tRaw * 165, 65536) - 40000),
        hum |-> Float(MilliQuot(hRaw * 100, 65536))]

\* ------------------------------------------------------------ telemetry rows
\* The parameters a telemetry row reads; the last seven differ between the
\* two firmwares.
CommonPars ==
  {105, 106, 107, 1100, 1101, 1102, 1104, 1105, 1402, 1010, 1011, 1012,
   1020, 1021, 1000, 1001, 1502, 1500, 1600, 1601}
SensorPars == CommonPars \cup {1200, 1201, 1202, 1203, 1204, 1300, 1301}
ArPars == CommonPars \cup {1060, 1061, 1062, 1063, 1064, 1065, 1066}

\* The telemetry block of sensor.ino's loop (lines 350-438): the parameter
\* reads in order, then the row.  fail is the set of parameters whose read
\* does not return 1, dev the values the device reports, undRaw and undAdc
\* the results of the two (long) conversions when their operand is NaN.
SensorRow(fail, dev, undRaw, undAdc, pump_rpm, pstat, pressure_mb, temperature, humidity, speed) ==
  LET rc(par) == IF par \in fail THEN 0 ELSE 1
      errNo == readLong(rc(105), dev.l)
      errInst == readLong(rc(106), dev.l)
      errPar == readLong(rc(107), dev.l)
      ldd_i == readFloat(rc(1100), dev.f)
      ldd_v == readFloat(rc(1101), dev.f)
      ldd_i_raw == FloatToLong(readFloat(rc(1102), dev.f), undRaw)
      ldd_va == readFloat(rc(1104), dev.f)
      ldd_vc == readFloat(rc(1105), dev.f)
      ldd_i_ramp == readFloat(rc(1402), dev.f)
      tec_target == readFloat(rc(1010), dev.f)
      tec_nom_r == readFloat(rc(1011), dev.f)
      tec_modeli == readFloat(rc(1012), dev.f)
      tec_i == readFloat(rc(1020), dev.f)
      tec_v == readFloat(rc(1021), dev.f)
      obj_t == readFloat(rc(1000), dev.f)
      sink_t == readFloat(rc(1001), dev.f)
      ain_adc == FloatToLong(readFloat(rc(1502), dev.f), undAdc)
      ain_v == readFloat(rc(1500), dev.f)
      laser_p == readFloat(rc(1600), dev.f)
      out_level == readFloat(rc(1601), dev.f)
      vin == readFloat(rc(1200), dev.f)
      v8 == readFloat(rc(1201), dev.f)
      v5 == readFloat(rc(1202), dev.f)
      v33 == readFloat(rc(1203), dev.f)
      vm33 == readFloat(rc(1204), dev.f)
      dev_t == readFloat(rc(1300), dev.f)
      pstage_t == readFloat(rc(1301), dev.f)
  IN OutLine("row", <<>>,
       <<PrintLong(errNo), PrintLong(errInst), PrintLong(errPar), printErrorTextField,
         PrintFloat(ldd_i, 6), PrintFloat(ldd_v, 6), PrintLong(ldd_i_raw),
         PrintFloat(ldd_va, 6), PrintFloat(ldd_vc, 6),
         PrintFloat(ldd_i_ramp, 6),
         PrintFloat(tec_target, 3), PrintFloat(tec_nom_r, 3), PrintFloat(tec_modeli, 6),
         PrintFloat(tec_i, 6), PrintFloat(tec_v, 6),
         PrintFloat(obj_t, 3), PrintFloat(sink_t, 3),
         PrintLong(ain_adc), PrintFloat(ain_v, 6),
         PrintFloat(laser_p, 6), PrintFloat(out_level, 6),
         PrintFloat(vin, 3), PrintFloat(v8, 3), PrintFloat(v5, 3),
         PrintFloat(v33, 3), PrintFloat(vm33, 3),
         PrintFloat(dev_t, 3), PrintFloat(pstage_t, 3),
         PrintFloat(pump_rpm, 0),
         IF pstat = 0 THEN PrintFloat(pressure_mb, 1) ELSE PrintText("nan"),
         PrintFloat(temperature, 1), PrintFloat(humidity, 1),
         PrintLong(speed), PrintLong(pstat)>>,
       <<>>)

\* A row printer that repeats the column names instead of the values.
printHeaderAgain(fail, dev, undRaw, undAdc) == printHeader

\* printTelemetryLine() of ar_clean.ino: floats are printed with the default
\* two decimals.
printTelemetryLine(fail, dev, undRaw, undAdc) ==
  LET rc(par) == IF par \in fail THEN 0 ELSE 1
      errNo == readLong(rc(105), dev.l)
      errInst == readLong(rc(106), dev.l)
      errPar == readLong(rc(107), dev.l)
      ldd_i == readFloat(rc(1100), dev.f)
      ldd_v == readFloat(rc(1101), dev.f)
      ldd_i_raw == FloatToLong(readFloat(rc(1102), dev.f), undRaw)
      ldd_va == readFloat(rc(1104), dev.f)
      ldd_vc == readFloat(rc(1105), dev.f)
      ldd_i_ramp == readFloat(rc(1402), dev.f)
      tec_target == readFloat(rc(1010), dev.f)
      tec_nom_r == readFloat(rc(1011), dev.f)
      tec_modeli == readFloat(rc(1012), dev.f)
      tec_i == readFloat(rc(1020), dev.f)
      tec_v == readFloat(rc(1021), dev.f)
      obj_t == readFloat(rc(1000), dev.f)
      sink_t == readFloat(rc(1001), dev.f)
      ain_adc == FloatToLong(readFloat(rc(1502), dev.f), undAdc)
      ain_v == readFloat(rc(1500), dev.f)
      laser_p == readFloat(rc(1600), dev.f)
      out_level == readFloat(rc(1601), dev.f)
      vin == readFloat(rc(1060), dev.f)
      v8 == readFloat(rc(1061), dev.f)
      v5 == readFloat(rc(1062), dev.f)
      v3_3 == readFloat(rc(1063), dev.f)
      vm3_3 == readFloat(rc(1064), dev.f)
      t_dev == readFloat(rc(1065), dev.f)
      t_pstage == readFloat(rc(1066), dev.f)
  IN OutLine("row", <<>>,
       <<PrintLong(errNo), PrintLong(errInst), PrintLong(errPar), printErrorTextField,
         PrintFloat(ldd_i, 2), PrintFloat(ldd_v, 2), PrintLong(ldd_i_raw),
         PrintFloat(ldd_va, 2), PrintFloat(ldd_vc, 2), PrintFloat(ldd_i_ramp, 2),
         PrintFloat(tec_target, 2), PrintFloat(tec_nom_r, 2), PrintFloat(tec_modeli, 2),
         PrintFloat(tec_i, 2), PrintFloat(tec_v, 2),
         PrintFloat(obj_t, 2), PrintFloat(sink_t, 2),
         PrintLong(ain_adc), PrintFloat(ain_v, 2),
         PrintFloat(laser_p, 2), PrintFloat(out_level, 2),
         PrintFloat(vin, 2), PrintFloat(v8, 2), PrintFloat(v5, 2),
         PrintFloat(v3_3, 2), PrintFloat(vm3_3, 2),
         PrintFloat(t_dev, 2), PrintFloat(t_pstage, 2)>>,
       <<>>)


\* ------------------------------------------------------ bus direction pin
\* Levels of the RS485 direction pin (RS485_RX_LEVEL, RS485_TX_LEVEL).
RS485_RX_LEVEL == "LOW"
RS485_TX_LEVEL == "HIGH"
RS485_RECEIVE == 0
RS485_TRANSMIT == 1
\* setRS485Mode(mode): the level the pin has afterwards, pin being its level
\* before the call.
setRS485Mode(mode, pin) ==
  IF mode = RS485_RECEIVE THEN "LOW"
  ELSE IF mode = RS485_TRANSMIT THEN "HIGH"
  ELSE pin
\* A flush that returns at once.
FlushNoWait(q) == TRUE
\* ArduinoSerial->flush() returns when every written byte has gone out.
FlushDone(q) == q = 0


\* ------------------------------------------------------------------- state
VARIABLES
  fw,                   \* which sketch runs: "sensor" or "ar_clean"
  pc,                   \* "setup", "setup2", "poll" (in pollUsbCommands), "tick";
                        \* inside the tick: "cli", "read", "sei", "row";
                        \* "pump": setPumpSpeed taken alone
  host,                 \* command lines the host sends, not yet read
  out,                  \* lines printed by the latest step
  writes,               \* parameter writes issued by the latest step
  pumpCalls,            \* setPumpSpeed calls made by the latest step
  io,                   \* what the latest step read from its environment
  currentSpeedPercent,  \* sensor.ino global
  pwmValue,             \* last value given to analogWrite(pumpPwmPin), -1: none
  lastTemperature,      \* sensor.ino global
  lastHumidity,         \* sensor.ino global
  fgPulses,             \* sensor.ino global, written by ISR_fg
  lastPulses,           \* static local of loop()
  clock,                \* millis()
  lastPrint,            \* static local of loop() (lastT in ar_clean.ino)
  headerCount,          \* CSV header lines printed so far (saturating)
  rowCount,             \* telemetry rows printed so far (saturating)
  intEnabled,           \* global interrupt flag: FALSE from noInterrupts() to interrupts()
  pulses,               \* local of loop(): the snapshot of fgPulses
  dpSum,                \* sum of the deltas of all telemetry ticks so far (uint32_t)
  rpc,                  \* ArduinoSerial_recvData: "idle", "read", "check", "done"
  rclock,               \* millis() as seen by the bus adapter
  startTime,            \* local of ArduinoSerial_recvData
  nread,                \* local of ArduinoSerial_recvData
  RcvBuf,               \* bytes stored in RcvBuf[0 .. nread-1]
  sinceCheck,           \* ms elapsed since the latest loop-condition check
  lastElapsed,          \* millis() - startTime at the latest check, -1: none
  forwarded,            \* MePort_ReceiveByte calls made by the current call
  frame,                \* argument of the latest MePort_ReceiveByte call
  nulIndex,             \* index at which the terminating 0 was stored, -1: none
  calls,                \* receive calls started so far
  dirPin,               \* RS485 direction pin 4: "INPUT" (not configured), "LOW", "HIGH"
  spc,                  \* ArduinoSerial_Send: "idle", "write", "flush", "release"
  txQueue,              \* bytes written to the UART and not yet out on the bus
  txSent,               \* bytes of the current frame that went out at transmit level
  txLost,               \* bytes that went out while the pin was not at transmit level
  sends,                \* send calls started so far
  wire,                 \* the bytes the host sends, over and over
  wpos,                 \* index in wire of the next byte to arrive
  rx,                   \* Serial receive buffer: bytes arrived and not yet read
  cmdBuf,               \* cmdBuf[0 .. cmdLen-1] (cmdLine in ar_clean.ino)
  rawLine,              \* every byte read since the latest '\n'
  reads                 \* parity of the number of Serial.read() calls so far

fwVars == <<fw, pc, host, out, writes, pumpCalls, io, currentSpeedPercent, pwmValue, lastTemperature, lastHumidity, fgPulses, lastPulses, clock, lastPrint, headerCount, rowCount, intEnabled, pulses, dpSum>>
recvVars == <<rpc, rclock, startTime, nread, RcvBuf, sinceCheck, lastElapsed, forwarded, frame, nulIndex, calls>>
busVars == <<dirPin, spc, txQueue, txSent, txLost, sends>>
pollVars == <<wire, wpos, rx, cmdBuf, rawLine, reads>>
vars == <<fwVars, recvVars, busVars, pollVars>>

Firmwares == {"sensor", "ar_clean"}
Period(f) == IF f = "sensor" THEN MERGED_PERIOD_MS ELSE TELEMETRY_PERIOD_MS
Header(f) == IF f = "sensor" THEN printMergedHeader ELSE printHeader
TelemetryPars(f) == IF f = "sensor" THEN SensorPars ELSE ArPars

\* What a step that reads nothing leaves in io.
NoIo == [op |-> "none", line |-> <<>>, fail |-> {}, undRaw |-> 0, undAdc |-> 0, byte1 |-> 0, byte2 |-> 0, hdcOk |-> FALSE, pct |-> 0,
         hdc |-> [et |-> 0, got |-> 0, bytes |-> <<0, 0, 0, 0>>], lowFirst |-> TRUE]

Count(seq, kind) == Cardinality({i \in 1..Len(seq) : seq[i].kind = kind})
Sat(n) == Min(n, MaxPeriods + 2)

\* An unsigned 32-bit value as two 16-bit halves.
U32(hi, lo) == [hi |-> hi, lo |-> lo]
U32Inc(a) ==
  IF a.lo < 65535 THEN U32(a.hi, a.lo + 1)
  ELSE U32((a.hi + 1) % 65536, 0)
\* a - b in unsigned 32-bit arithmetic.
U32Sub(a, b) ==
  LET borrow == IF a.lo < b.lo THEN 1 ELSE 0
  IN U32((a.hi - b.hi - borrow) % 65536, (a.lo - b.lo) % 65536)
\* a + n in unsigned 32-bit arithmetic, for 0 <= n <= 65536.
U32Add(a, n) ==
  LET lo == a.lo + n
  IN U32((a.hi + lo \div 65536) % 65536, lo % 65536)
\* a < n for a small non-negative n.
U32Less(a, n) == a.hi = 0 /\ a.lo < n
\* The value of a, cut off at 65536.
U32Small(a) == IF a.hi = 0 THEN a.lo ELSE 65536

\* The bus adapter before any receive call, at time t.
RecvIdleAt(t) ==
  /\ rpc = "idle" /\ rclock = t /\ startTime = U32(0, 0) /\ nread = 0 /\ RcvBuf = <<>>
  /\ sinceCheck = 0 /\ lastElapsed = -1 /\ forwarded = 0 /\ frame = <<>>
  /\ nulIndex = -1 /\ calls = 0
RecvIdle == RecvIdleAt(U32(0, 0))
\* The bus adapter with no send in progress and the direction pin at `pin`.
SendIdleAt(pin) ==
  /\ dirPin = pin /\ spc = "idle" /\ txQueue = 0 /\ txSent = 0 /\ txLost = 0 /\ sends = 0

\* The tachometer counters when n pulses have been counted and sampled, with
\* interrupts enabled.
TachAt(n) ==
  /\ fgPulses = n /\ lastPulses = n /\ pulses = n /\ dpSum = n /\ intEnabled = TRUE

\* The globals and statics as initialised at power-up, for a host that is
\* going to send the command lines `stream`.
BootAt(streams, wires, pcs) ==
  /\ fw \in Firmwares
  /\ pc \in pcs
  /\ host \in streams
  /\ out = <<>> /\ writes = <<>> /\ pumpCalls = 0 /\ io = NoIo
  /\ currentSpeedPercent = INIT_SPEED_PERCENT
  /\ pwmValue = -1
  /\ lastTemperature = Float(-40000)
  /\ lastHumidity = Float(0)
  /\ TachAt(U32(0, 0))
  /\ clock = 0 /\ lastPrint = 0
  /\ headerCount = 0 /\ rowCount = 0
  /\ SendIdleAt("INPUT")
  /\ wire \in wires /\ wpos = 1 /\ rx = <<>> /\ cmdBuf = <<>> /\ rawLine = <<>> /\ reads = 0

\* Power-up: the program is at the start of setup().
BootWire(streams, wires) == BootAt(streams, wires, {"setup"})
\* The same with a host that sends whole lines only, handled line by line.
Boot(streams) == BootWire(streams, {<<>>})


\* ------------------------------------------------------------ input domains
\* Values the device reports for a long and for a float parameter.
DevValues == {[l |-> 0, f |-> 1500], [l |-> 7, f |-> -2750]}

\* Replies of the pressure transducer <<byte1, byte2>>: status 0 at raw count
\* Out_min (0x0666), at both ends of the 14-bit range and inside it, and each
\* non-zero status.
SpiReplies == {<<6, 102>>, <<63, 255>>, <<0, 0>>, <<57, 154>>, <<70, 102>>, <<134, 102>>, <<255, 255>>}

\* Outcomes of the I2C poll: successful reads, bus error, short read.
HdcReplies ==
  {[et |-> 0, got |-> 4, bytes |-> <<52, 97, 0, 128>>],
   [et |-> 0, got |-> 4, bytes |-> <<0, 0, 0, 0>>],
   [et |-> 2, got |-> 0, bytes |-> <<0, 0, 0, 0>>],
   [et |-> 0, got |-> 3, bytes |-> <<0, 0, 0, 0>>]}

\* What one telemetry cycle reads from its environment: the set of parameter
\* reads that do not return 1, the device values, the SPI reply, the I2C
\* outcome and the evaluation order of the I2C byte reads.
TickInput(fail, dev, spi, hdc, lowFirst) ==
  [fail |-> fail, dev |-> dev, spi |-> spi, hdc |-> hdc, lowFirst |-> lowFirst]
HealthyInput ==
  TickInput({}, [l |-> 0, f |-> 1500], <<6, 102>>, [et |-> 0, got |-> 4, bytes |-> <<52, 97, 0, 128>>], TRUE)
BrokenHdc == [et |-> 2, got |-> 0, bytes |-> <<0, 0, 0, 0>>]

\* The cycles tried.  "rich": every single failing parameter, every SPI reply,
\* every I2C outcome and every device value, each against a healthy rest, and
\* the cycles in which everything fails at once.  "worst": the healthy cycle,
\* each local sensor failing alone, and everything failing.  "one": the
\* healthy cycle.
TickInputs(profile, f) ==
  IF profile = "rich" THEN
    {[HealthyInput EXCEPT !.fail = {p}] : p \in TelemetryPars(f)}
    \cup {[HealthyInput EXCEPT !.dev = d] : d \in DevValues}
    \cup {[HealthyInput EXCEPT !.spi = r] : r \in SpiReplies}
    \cup {[HealthyInput EXCEPT !.hdc = h, !.lowFirst = o] : h \in HdcReplies, o \in BOOLEAN}
    \cup {TickInput(TelemetryPars(f), d, r, BrokenHdc, TRUE) : d \in DevValues, r \in {<<6, 102>>, <<255, 255>>}}
    \cup {TickInput({1102, 1502}, [l |-> 0, f |-> 1500], <<70, 102>>, BrokenHdc, TRUE)}
  ELSE IF profile = "worst" THEN
    {HealthyInput,
     [HealthyInput EXCEPT !.spi = <<70, 102>>],
     [HealthyInput EXCEPT !.hdc = BrokenHdc],
     TickInput(TelemetryPars(f), [l |-> 0, f |-> 1500], <<255, 255>>, BrokenHdc, TRUE)}
  ELSE {HealthyInput}

\* Time (ms) that passes between two readings of millis() in loop().
ClockSteps(f) == {0, Period(f) \div 2, Period(f)}
\* Time the set-up delays take: delay(200), then delay(10) and delay(100) in
\* sensor.ino only.
SetupDelay1 == 200
SetupDelay2(f) == IF f = "sensor" THEN 110 ELSE 0
MaxClock(f) == SetupDelay1 + SetupDelay2(f) + MaxPeriods * Period(f)

UndFor(fail, par) == IF par \in fail THEN CastNaNOutcomes ELSE {0}

\* --------------------------------------------------------------- set-up
Info(words) == OutLine("info", words, <<>>, <<>>)

\* setup() up to attachInterrupt (sensor.ino 277-303) or up to the command
\* list (ar_clean.ino 252-268): the direction pin is made an output at
\* receive level, then banner, identTest, "IDENT ok=", command list.
SetupStart ==
  /\ pc = "setup"
  /\ \E identRc \in Rc :
       out' = <<Info(<<"banner">>)>>
              \o (IF identRc = 1 THEN <<Info(<<"IDENT addr=">>)>> ELSE <<>>)
              \o <<OutLine("info", <<"IDENT ok=">>, <<PrintLong(IF identRc = 1 THEN 1 ELSE 0)>>, <<>>)>>
              \o <<Reply("OK", <<"COMMANDS:">>)>>
  /\ clock' = clock + SetupDelay1
  /\ pc' = "setup2"
  /\ writes' = <<>> /\ pumpCalls' = 0 /\ io' = NoIo
  /\ headerCount' = Sat(headerCount + Count(out', "header"))
  /\ rowCount' = Sat(rowCount + Count(out', "row"))
  /\ dirPin' = RS485_RX_LEVEL
  /\ UNCHANGED <<fw, host, currentSpeedPercent, pwmValue, lastTemperature, lastHumidity, fgPulses, lastPulses, lastPrint>>
  /\ UNCHANGED <<intEnabled, pulses, dpSum>>
  /\ UNCHANGED recvVars /\ UNCHANGED <<spc, txQueue, txSent, txLost, sends>> /\ UNCHANGED pollVars

\* The rest of setup(): setPumpSpeed(currentSpeedPercent) and the sensor
\* configuration in sensor.ino, then the CSV header.
SetupFinish ==
  /\ pc = "setup2"
  /\ IF fw = "sensor"
     THEN pwmValue' = setPumpSpeed(currentSpeedPercent) /\ pumpCalls' = 1
     ELSE pwmValue' = pwmValue /\ pumpCalls' = 0
  /\ clock' = clock + SetupDelay2(fw)
  /\ out' = <<Header(fw)>>
  /\ headerCount' = Sat(headerCount + Count(out', "header"))
  /\ rowCount' = Sat(rowCount + Count(out', "row"))
  /\ pc' = "poll"
  /\ writes' = <<>> /\ io' = NoIo
  /\ UNCHANGED <<fw, host, currentSpeedPercent, lastTemperature, lastHumidity, fgPulses, lastPulses, lastPrint>>
  /\ UNCHANGED <<intEnabled, pulses, dpSum>>
  /\ UNCHANGED recvVars /\ UNCHANGED busVars /\ UNCHANGED pollVars

\* ISR_fg(): one increment of the pulse counter, from the moment the
\* interrupt is attached, while interrupts are enabled.
FgPulse(maxPulses) ==
  /\ fw = "sensor"
  /\ pc # "setup"
  /\ intEnabled
  /\ U32Less(U32Sub(fgPulses, lastPulses), maxPulses)
  /\ fgPulses' = U32Inc(fgPulses)
  /\ UNCHANGED <<fw, pc, host, out, writes, pumpCalls, io, currentSpeedPercent, pwmValue, lastTemperature, lastHumidity, lastPulses, clock, lastPrint, headerCount, rowCount>>
  /\ UNCHANGED <<intEnabled, pulses, dpSum>>
  /\ UNCHANGED recvVars /\ UNCHANGED busVars /\ UNCHANGED pollVars

ISR_fg == FgPulse(MaxPulses)

\* ------------------------------------------------------------ command poll
IsGet(f, line) == f = "ar_clean" /\ ArParse(line).verb = V_GET
IsSetPwr(f, line) ==
  /\ f = "sensor"
  /\ SensorParse(line).verb \in {V_SETPWR, V_SETPOWER}
  /\ SensorParse(line).hasArg

\* handleCommandLine(line) as called from pollUsbCommands, with what the
\* device and the tachometer-free part of the environment answer.
HandleLine(profile, line) ==
     \E wrc \in Rc,
        pct \in (IF IsSetPwr(fw, line) THEN AtoiOutcomes(SensorParse(line).arg) ELSE {0}),
        ti \in (IF IsGet(fw, line) THEN TickInputs(profile, fw) ELSE {HealthyInput}) :
     \E undRaw \in UndFor(ti.fail, 1102), undAdc \in UndFor(ti.fail, 1502) :
       LET e == IF fw = "sensor"
                THEN SensorHandleCommandLine(line, wrc, pct, currentSpeedPercent, pwmValue)
                ELSE ArHandleCommandLine(line, wrc, printTelemetryLine(ti.fail, ti.dev, undRaw, undAdc), currentSpeedPercent, pwmValue)
       IN /\ out' = e.out
          /\ writes' = e.writes
          /\ pumpCalls' = e.pumpCalls
          /\ currentSpeedPercent' = e.speed
          /\ pwmValue' = e.pwm
          /\ rowCount' = Sat(rowCount + Count(e.out, "row"))
          /\ headerCount' = Sat(headerCount + Count(e.out, "header"))
          /\ io' = [NoIo EXCEPT !.op = "cmd", !.line = line, !.fail = ti.fail,
                                !.undRaw = undRaw, !.undAdc = undAdc, !.pct = pct]

\* pollUsbCommands(), one terminated line: the '\n' branch hands the
\* buffered line to handleCommandLine.
PollLine(profile) ==
  /\ pc = "poll"
  /\ host # <<>>
  /\ HandleLine(profile, Head(host))
  /\ host' = Tail(host)
  /\ UNCHANGED <<fw, pc, lastTemperature, lastHumidity, fgPulses, lastPulses, clock, lastPrint>>
  /\ UNCHANGED <<intEnabled, pulses, dpSum>>
  /\ UNCHANGED recvVars /\ UNCHANGED busVars /\ UNCHANGED pollVars

\* pollUsbCommands() returns: Serial.available() is 0.
PollDone ==
  /\ pc = "poll"
  /\ rx = <<>>
  /\ pc' = "tick"
  /\ out' = <<>> /\ writes' = <<>> /\ pumpCalls' = 0 /\ io' = NoIo
  /\ UNCHANGED <<fw, host, currentSpeedPercent, pwmValue, lastTemperature, lastHumidity, fgPulses, lastPulses, clock, lastPrint, headerCount, rowCount>>
  /\ UNCHANGED <<intEnabled, pulses, dpSum>>
  /\ UNCHANGED recvVars /\ UNCHANGED busVars /\ UNCHANGED pollVars

\* ------------------------------------------------------------ telemetry tick
\* A reference that advances by one period from the previous one.
EmitRefCatchUp(now, last, f) == last + (IF f = "sensor" THEN MERGED_PERIOD_MS ELSE TELEMETRY_PERIOD_MS)
\* lastPrint = now (lastT = now in ar_clean.ino).
EmitRef(now, last, f) == now

\* A delta that is 0 when the counter is below the previous sample.
TachDeltaNoWrap(snap, last) ==
  IF snap.hi < last.hi \/ (snap.hi = last.hi /\ snap.lo < last.lo) THEN U32(0, 0) ELSE U32Sub(snap, last)
\* uint32_t dp = pulses - lastPulses.
TachDelta(snap, last) == U32Sub(snap, last)

\* The telemetry block of loop() in sensor.ino, at time now, from the
\* snapshot snap of the pulse counter on.
SensorTickFrom(profile, now, snap) ==
  \E ti \in TickInputs(profile, fw) :
  \E undRaw \in UndFor(ti.fail, 1102), undAdc \in UndFor(ti.fail, 1502) :
    LET dp == U32Small(TachDelta(snap, lastPulses))
        pump_rpm == PumpRpm(dp)
        pr == readPressure(ti.spi[1], ti.spi[2])
        h == readHDCData(ti.hdc.et, ti.hdc.got, ti.hdc.bytes, ti.lowFirst, lastTemperature, lastHumidity)
    IN /\ lastPrint' = EmitRef(now, lastPrint, fw)
       /\ pulses' = snap
       /\ dpSum' = U32Add(dpSum, dp)
       /\ lastPulses' = snap
       /\ lastTemperature' = (IF h.ok THEN h.temp ELSE lastTemperature)
       /\ lastHumidity' = (IF h.ok THEN h.hum ELSE lastHumidity)
       /\ out' = <<SensorRow(ti.fail, ti.dev, undRaw, undAdc, pump_rpm, pr.status, pr.pressure_mb, h.temp, h.hum, currentSpeedPercent)>>
       /\ io' = [NoIo EXCEPT !.op = "tick", !.fail = ti.fail, !.undRaw = undRaw, !.undAdc = undAdc,
                             !.byte1 = ti.spi[1], !.byte2 = ti.spi[2], !.hdcOk = h.ok,
                             !.hdc = ti.hdc, !.lowFirst = ti.lowFirst]

\* The same with the snapshot taken in the step: noInterrupts(), the read of
\* fgPulses and interrupts() leave no room for ISR_fg.
SensorTick(profile, now) == SensorTickFrom(profile, now, fgPulses)

\* The telemetry block of loop() in ar_clean.ino.
ArTick(profile, now) ==
  \E ti \in TickInputs(profile, fw) :
  \E undRaw \in UndFor(ti.fail, 1102), undAdc \in UndFor(ti.fail, 1502) :
       /\ lastPrint' = EmitRef(now, lastPrint, fw)
       /\ out' = <<printTelemetryLine(ti.fail, ti.dev, undRaw, undAdc)>>
       /\ io' = [NoIo EXCEPT !.op = "tick", !.fail = ti.fail, !.undRaw = undRaw, !.undAdc = undAdc]
       /\ UNCHANGED <<lastPulses, lastTemperature, lastHumidity, pulses, dpSum>>

\* The period test of loop(), after pollUsbCommands has returned.
PeriodElapsed(now, last, f) == now - last >= Period(f)

\* loop() after pollUsbCommands: read millis(), emit a row when the period
\* has elapsed.
LoopBody(profile, now, due) ==
  /\ pc = "tick"
  /\ clock' = now
  /\ IF due
     THEN /\ (IF fw = "sensor" THEN SensorTick(profile, now) ELSE ArTick(profile, now))
     ELSE /\ out' = <<>> /\ io' = NoIo
          /\ UNCHANGED <<lastPrint, lastPulses, lastTemperature, lastHumidity, pulses, dpSum>>
  /\ rowCount' = Sat(rowCount + Count(out', "row"))
  /\ headerCount' = Sat(headerCount + Count(out', "header"))
  /\ pc' = "poll"
  /\ writes' = <<>> /\ pumpCalls' = 0
  /\ UNCHANGED <<fw, host, currentSpeedPercent, pwmValue, fgPulses, intEnabled>>
  /\ UNCHANGED recvVars /\ UNCHANGED busVars /\ UNCHANGED pollVars

\* loop() while millis() is far from its wrap.
LoopTick(profile) ==
  \E d \in ClockSteps(fw) :
    /\ clock + d <= MaxClock(fw)
    /\ LoopBody(profile, clock + d, PeriodElapsed(clock + d, lastPrint, fw))

\* millis() and lastPrint are uint32_t: the clock wraps and now - lastPrint is
\* taken modulo the wrap.  ClockWrap stands for 2^32.
ClockWrap(f) == (MaxPeriods + 2) * Period(f)
\* A period test on the signed difference.
PeriodElapsedSigned(now, last, f) == now - last >= Period(f)
PeriodElapsedU(now, last, f) == ((now - last) % ClockWrap(f)) >= Period(f)

\* loop() with the wrapping clock.
LoopTickWrap(profile) ==
  \E d \in ClockSteps(fw) :
    LET now == (clock + d) % ClockWrap(fw)
    IN LoopBody(profile, now, PeriodElapsedU(now, lastPrint, fw))

\* A loop iteration during which millis() advances.
LoopAdvance == LoopTickWrap("worst") /\ clock' # clock


\* --------------------------------------------------------------- host input
LowerStr(s) ==
  [i \in 1..Len(s) |->
     IF \E k \in 1..Len(UpperAlpha) : UpperAlpha[k] = s[i]
     THEN LowerAlpha[CHOOSE k \in 1..Len(UpperAlpha) : UpperAlpha[k] = s[i]]
     ELSE s[i]]
MixedStr(s) == [i \in 1..Len(s) |-> IF i % 2 = 1 THEN LowerStr(s)[i] ELSE s[i]]

V_FOO == <<"F", "O", "X">>
KnownVerbs == {V_PING, V_GET, V_RESET, V_SETC, V_SETT, V_SETPWR, V_SETPOWER}
VerbSpellings ==
  {v : v \in KnownVerbs \cup {V_FOO}}
  \cup {LowerStr(v) : v \in KnownVerbs \cup {V_FOO}}
  \cup {MixedStr(V_SETC), MixedStr(V_SETPWR)}

\* Integer arguments, inside and outside the range of int.
IntArgs ==
  {<<"5", "5">>, <<"-", "5">>, <<"1", "5", "0">>, <<"0">>, <<"1", "0", "0">>,
   <<"6", "5", "5", "4", "0">>, <<"-", "4", "0", "0", "0", "0">>}
\* Arguments with a fraction, and arguments that are no number.
FracArgs == {<<"1", ".", "5">>, <<"-", "2", ".", "2", "5">>}
BadArgs == {<<"a", "b", "c">>, <<"1", "2", "x">>}
Args == IntArgs \cup FracArgs \cup BadArgs

Seps == {<<SP>>, <<TAB>>, <<SP, SP>>, <<SP, TAB>>, <<TAB, SP>>}
Leads == {<<SP>>, <<TAB>>, <<SP, TAB>>}

\* The command lines tried: every spelling with no argument, with blanks
\* only, and with every argument after every separator; upper-case verbs
\* after leading blanks; the blank lines.
CmdLines ==
  {v : v \in VerbSpellings}
  \cup {v \o s : v \in VerbSpellings, s \in Seps}
  \cup {v \o s \o a : v \in VerbSpellings, s \in Seps, a \in Args}
  \cup {l \o v \o t : l \in Leads, v \in KnownVerbs, t \in {<<>>, <<SP, "5", "5">>}}
  \cup {<<>>, <<SP>>, <<TAB, SP>>}

L_SETPWR55 == V_SETPWR \o <<SP, "5", "5">>
L_SETPWR150 == V_SETPWR \o <<SP, "1", "5", "0">>
L_SETC == V_SETC \o <<SP, "1", ".", "5">>

\* Host streams of the command model: one line, alone or after a SETPWR 55.
CmdStreams == {<<l>> : l \in CmdLines} \cup {<<L_SETPWR55, l>> : l \in CmdLines}

\* Host streams of the system model.
SysStreams ==
  {<<>>, <<V_GET>>, <<L_SETPWR55, V_GET>>, <<L_SETPWR150>>, <<V_RESET, L_SETC>>, <<V_FOO, V_SETT>>}

\* ------------------------------------------------------------ specifications
Init == Boot(SysStreams) /\ RecvIdle

Next ==
  \/ SetupStart
  \/ SetupFinish
  \/ ISR_fg
  \/ PollLine("rich")
  \/ PollDone
  \/ LoopTick("rich")

\* The firmware with every telemetry input and a few host streams.
Spec == Init /\ [][Next]_vars

InitCmd == Boot(CmdStreams) /\ RecvIdle

NextCmd ==
  \/ SetupStart
  \/ SetupFinish
  \/ PollLine("one")
  \/ PollDone
  \/ LoopTick("one")

\* The firmware with every command line and the healthy telemetry cycle.
SpecCmd == InitCmd /\ [][NextCmd]_vars


InitLive == Boot(SysStreams) /\ RecvIdle

NextLive ==
  \/ SetupStart
  \/ SetupFinish
  \/ PollLine("worst")
  \/ PollDone
  \/ LoopTickWrap("worst")

\* The firmware running for ever: setup() and every call of loop() return,
\* and time passes.
SpecLive ==
  /\ InitLive /\ [][NextLive]_vars
  /\ WF_vars(SetupStart) /\ WF_vars(SetupFinish) /\ WF_vars(PollDone)
  /\ SF_vars(LoopAdvance)


\* sensor.ino with a silent host and a healthy device, the tachometer giving
\* up to MaxTachPulses pulses between two telemetry cycles.
TachPulse == FgPulse(MaxTachPulses)

InitTach == fw = "sensor" /\ Boot({<<>>}) /\ RecvIdle

NextTach ==
  \/ SetupStart
  \/ SetupFinish
  \/ TachPulse
  \/ PollDone
  \/ LoopTick("one")

SpecTach == InitTach /\ [][NextTach]_vars

\* ------------------------------------------------- setPumpSpeed taken alone
\* The values of int that setPumpSpeed is given: the range of the command
\* and well beyond it on both sides, and the ends of int.
PumpInputs == (-MaxPumpInput..(100 + MaxPumpInput)) \cup {INT_MIN, INT_MAX}

\* setPumpSpeed(p) for any int p: the duty handed to analogWrite.
PumpCall ==
  /\ pc = "pump"
  /\ \E p \in PumpInputs :
       /\ pwmValue' = setPumpSpeed(p)
       /\ io' = [NoIo EXCEPT !.op = "pump", !.pct = p]
  /\ pumpCalls' = 1
  /\ UNCHANGED <<fw, pc, host, out, writes, currentSpeedPercent, lastTemperature, lastHumidity, fgPulses, lastPulses, clock, lastPrint, headerCount, rowCount>>
  /\ UNCHANGED <<intEnabled, pulses, dpSum>>
  /\ UNCHANGED recvVars /\ UNCHANGED busVars /\ UNCHANGED pollVars

\* SETPWR lines with every integer argument, and a line that is no SETPWR.
PumpStreams == {<<V_SETPWR \o <<SP>> \o a>> : a \in IntArgs} \cup {<<V_PING>>, <<L_SETPWR150, V_RESET>>}

\* sensor.ino from power-up, or setPumpSpeed alone.
InitPump == fw = "sensor" /\ BootAt(PumpStreams, {<<>>}, {"setup", "pump"}) /\ RecvIdle

NextPump ==
  \/ SetupStart
  \/ SetupFinish
  \/ PollLine("one")
  \/ PollDone
  \/ LoopTick("one")
  \/ PumpCall

SpecPump == InitPump /\ [][NextPump]_vars

\* ------------------------------------------ pollUsbCommands, byte by byte
CH_CR == "\r"
CH_LF == "\n"
\* A buffer of one byte less.
BufLimitShort(f) == IF f = "sensor" THEN CMD_BUF_SIZE - 2 ELSE CMD_LINE_MAX - 1
\* Bytes cmdBuf (cmdLine) can hold: cmdLen < sizeof(cmdBuf)-1 in sensor.ino,
\* cmdLine.length() < 120 in ar_clean.ino.
BufLimit(f) == IF f = "sensor" THEN CMD_BUF_SIZE - 1 ELSE CMD_LINE_MAX

\* The k-th byte on the wire from now on, and the next k of them.
WireAt(k) == wire[((wpos + k - 2) % Len(wire)) + 1]
Arriving(k) == [i \in 1..k |-> WireAt(i)]
Arrive(k) ==
  /\ rx' = (IF pc = "poll" THEN Tail(rx) ELSE rx) \o Arriving(k)
  /\ wpos' = IF k = 0 THEN wpos ELSE ((wpos + k - 1) % Len(wire)) + 1
  /\ UNCHANGED wire

\* One byte arrives in the Serial receive buffer while the firmware is
\* anywhere but in the read loop of pollUsbCommands.
HostArrive ==
  /\ pc # "poll"
  /\ wire # <<>> /\ Len(rx) < MaxRx
  /\ Arrive(1)
  /\ UNCHANGED <<cmdBuf, rawLine, reads>>
  /\ UNCHANGED fwVars /\ UNCHANGED recvVars /\ UNCHANGED busVars

\* One byte arrives between two reads of pollUsbCommands.
HostArriveInPoll ==
  /\ pc = "poll"
  /\ wire # <<>> /\ Len(rx) < MaxRx
  /\ rx' = Append(rx, WireAt(1))
  /\ wpos' = (wpos % Len(wire)) + 1
  /\ UNCHANGED <<wire, cmdBuf, rawLine, reads>>
  /\ UNCHANGED fwVars /\ UNCHANGED recvVars /\ UNCHANGED busVars

\* One turn of the while loop of pollUsbCommands: Serial.available() > 0,
\* one byte is read; '\r' is skipped, '\n' hands the buffer to
\* handleCommandLine and empties it, any other byte is stored while there is
\* room.  While a line that is answered is being handled, up to as many
\* bytes as the receive buffer takes arrive.
PollByte ==
  /\ pc = "poll"
  /\ rx # <<>>
  /\ reads' = 1 - reads
  /\ LET c == Head(rx) IN
     IF c = CH_LF
     THEN /\ HandleLine("one", cmdBuf)
          /\ cmdBuf' = <<>> /\ rawLine' = <<>>
          /\ \E k \in 0..(IF out' = <<>> \/ wire = <<>> THEN 0 ELSE MaxRx - Len(Tail(rx))) : Arrive(k)
     ELSE /\ cmdBuf' = (IF c # CH_CR /\ Len(cmdBuf) < BufLimit(fw) THEN Append(cmdBuf, c) ELSE cmdBuf)
          /\ rawLine' = Append(rawLine, c)
          /\ Arrive(0)
          /\ out' = <<>> /\ writes' = <<>> /\ pumpCalls' = 0 /\ io' = NoIo
          /\ UNCHANGED <<currentSpeedPercent, pwmValue, rowCount, headerCount>>
  /\ UNCHANGED <<fw, pc, host, lastTemperature, lastHumidity, fgPulses, lastPulses, clock, lastPrint>>
  /\ UNCHANGED <<intEnabled, pulses, dpSum>>
  /\ UNCHANGED recvVars /\ UNCHANGED busVars

\* What the host repeats: nothing, a short unknown command, PING ended by
\* CR LF, and a line longer than either buffer.
LongLine == [i \in 1..(CMD_BUF_SIZE + 2) |-> "A"] \o <<CH_LF>>
Wires == {<<>>, <<"x", CH_LF>>, V_PING \o <<CH_CR, CH_LF>>, LongLine}

InitPoll == BootWire({<<>>}, Wires) /\ RecvIdle

NextPoll ==
  \/ SetupStart
  \/ SetupFinish
  \/ HostArrive
  \/ HostArriveInPoll
  \/ PollByte
  \/ PollDone
  \/ LoopTick("one")

\* The firmware fed byte by byte, bytes arriving at any moment.
SpecPoll == InitPoll /\ [][NextPoll]_vars

NextDrain ==
  \/ SetupStart
  \/ SetupFinish
  \/ HostArrive
  \/ PollByte
  \/ PollDone
  \/ LoopTickWrap("one")

\* The firmware running for ever, fed byte by byte; the read loop is taken
\* to be faster than the wire, so that bytes arrive only between two calls
\* of pollUsbCommands and while a line is being handled.
SpecDrain ==
  /\ InitPoll /\ [][NextDrain]_vars
  /\ WF_vars(SetupStart) /\ WF_vars(SetupFinish)
  /\ WF_vars(PollByte) /\ WF_vars(PollDone) /\ WF_vars(LoopTickWrap("one"))

\* ------------------------------------------------- the tick, step by step
\* loop() of sensor.ino with the snapshot of the pulse counter taken in
\* steps, so that ISR_fg runs between any two of them that leave interrupts
\* enabled.  The clock wraps; at most MaxIsrRows rows are followed.
TickDue ==
  /\ pc = "tick" /\ fw = "sensor"
  /\ rowCount < MaxIsrRows
  /\ \E d \in ClockSteps(fw) :
       LET now == (clock + d) % ClockWrap(fw)
       IN /\ PeriodElapsedU(now, lastPrint, fw)
          /\ clock' = now /\ lastPrint' = now
  /\ pc' = "cli"
  /\ out' = <<>> /\ writes' = <<>> /\ pumpCalls' = 0 /\ io' = NoIo
  /\ UNCHANGED <<fw, host, currentSpeedPercent, pwmValue, lastTemperature, lastHumidity, fgPulses, lastPulses, headerCount, rowCount>>
  /\ UNCHANGED <<intEnabled, pulses, dpSum>>
  /\ UNCHANGED recvVars /\ UNCHANGED busVars /\ UNCHANGED pollVars

\* loop() when the period has not elapsed.
TickSkip ==
  /\ fw = "sensor"
  /\ \E d \in ClockSteps(fw) :
       LET now == (clock + d) % ClockWrap(fw)
       IN ~PeriodElapsedU(now, lastPrint, fw) /\ LoopBody("one", now, FALSE)

\* A tick that goes on to the read without disabling interrupts.
NoInterruptsSkipped ==
  /\ pc = "cli"
  /\ pc' = "read"
  /\ UNCHANGED <<fw, host, out, writes, pumpCalls, io, currentSpeedPercent, pwmValue, lastTemperature, lastHumidity, fgPulses, lastPulses, clock, lastPrint, headerCount, rowCount, intEnabled, pulses, dpSum>>
  /\ UNCHANGED recvVars /\ UNCHANGED busVars /\ UNCHANGED pollVars

\* noInterrupts().
NoInterrupts ==
  /\ pc = "cli"
  /\ intEnabled' = FALSE
  /\ pc' = "read"
  /\ UNCHANGED <<fw, host, out, writes, pumpCalls, io, currentSpeedPercent, pwmValue, lastTemperature, lastHumidity, fgPulses, lastPulses, clock, lastPrint, headerCount, rowCount, pulses, dpSum>>
  /\ UNCHANGED recvVars /\ UNCHANGED busVars /\ UNCHANGED pollVars

\* pulses = fgPulses.
ReadPulses ==
  /\ pc = "read"
  /\ pulses' = fgPulses
  /\ pc' = "sei"
  /\ UNCHANGED <<fw, host, out, writes, pumpCalls, io, currentSpeedPercent, pwmValue, lastTemperature, lastHumidity, fgPulses, lastPulses, clock, lastPrint, headerCount, rowCount, intEnabled, dpSum>>
  /\ UNCHANGED recvVars /\ UNCHANGED busVars /\ UNCHANGED pollVars

\* interrupts().
Interrupts ==
  /\ pc = "sei"
  /\ intEnabled' = TRUE
  /\ pc' = "row"
  /\ UNCHANGED <<fw, host, out, writes, pumpCalls, io, currentSpeedPercent, pwmValue, lastTemperature, lastHumidity, fgPulses, lastPulses, clock, lastPrint, headerCount, rowCount, pulses, dpSum>>
  /\ UNCHANGED recvVars /\ UNCHANGED busVars /\ UNCHANGED pollVars

\* The rest of the telemetry block: the delta, the new reference, the bus
\* reads and the row.
TickRow ==
  /\ pc = "row"
  /\ SensorTickFrom("one", lastPrint, pulses)
  /\ rowCount' = Sat(rowCount + Count(out', "row"))
  /\ headerCount' = Sat(headerCount + Count(out', "header"))
  /\ pc' = "poll"
  /\ writes' = <<>> /\ pumpCalls' = 0
  /\ UNCHANGED <<fw, host, currentSpeedPercent, pwmValue, fgPulses, clock, intEnabled>>
  /\ UNCHANGED recvVars /\ UNCHANGED busVars /\ UNCHANGED pollVars

IsrPulse == FgPulse(MaxIsrPulses)

\* sensor.ino in its loop after the counter has reached n (and was sampled):
\* setup is done, header and one row are out, the clock (modulo its wrap)
\* is at the latest tick.
RunningAt(n) ==
  /\ fw = "sensor" /\ pc = "poll" /\ host = <<>>
  /\ out = <<>> /\ writes = <<>> /\ pumpCalls = 0 /\ io = NoIo
  /\ currentSpeedPercent = INIT_SPEED_PERCENT
  /\ pwmValue = setPumpSpeed(INIT_SPEED_PERCENT)
  /\ lastTemperature = Float(-40000) /\ lastHumidity = Float(0)
  /\ TachAt(n)
  /\ clock = 0 /\ lastPrint = 0
  /\ headerCount = 1 /\ rowCount = 1
  /\ SendIdleAt(RS485_RX_LEVEL)
  /\ wire = <<>> /\ wpos = 1 /\ rx = <<>> /\ cmdBuf = <<>> /\ rawLine = <<>> /\ reads = 0

\* Counter values the run is followed from: the last ones before the wrap.
TachStarts == {U32(65535, 65534), U32(65535, 65535)}

InitIsr ==
  /\ \/ fw = "sensor" /\ Boot({<<>>, <<L_SETC>>})
     \/ \E n \in TachStarts : RunningAt(n)
  /\ RecvIdle

NextIsr ==
  \/ SetupStart
  \/ SetupFinish
  \/ IsrPulse
  \/ PollLine("one")
  \/ PollDone
  \/ TickDue
  \/ TickSkip
  \/ NoInterrupts
  \/ ReadPulses
  \/ Interrupts
  \/ TickRow

SpecIsr == InitIsr /\ [][NextIsr]_vars


\* ------------------------------------------------------- bus receive (RS485)
CR == 13
\* Bytes the instrument may send: the terminator, a letter, a zero byte.
Bytes == {CR, 65, 0}

\* A loop condition that never sees the timeout.
LoopAgainNoTimeout(now, start) == TRUE
\* Whether the do-while loop goes round again: the condition of line 36.
LoopAgain(now, start) == U32Less(U32Sub(now, start), MEPORT_SET_AND_QUERY_TIMEOUT)

\* A break test without the capacity limit.
BreakOnEolOnly(eol, n) == eol
\* Whether the loop is left after a byte was stored: the test of line 35.
BreakAfterByte(eol, n) == eol \/ n >= MEPORT_MAX_RX_BUF_SIZE

\* A forward test that also passes an empty frame.
ForwardAlways(n) == n >= 0
\* Whether the frame is handed to MePort_ReceiveByte: the test of line 38.
ForwardFrame(n) == n > 0

\* ArduinoSerial_recvData entry: the clock is read, nread is cleared.
RecvCall ==
  /\ rpc \in {"idle", "done"}
  /\ calls < MaxCalls
  /\ calls' = calls + 1
  /\ startTime' = rclock
  /\ nread' = 0 /\ RcvBuf' = <<>>
  /\ forwarded' = 0 /\ nulIndex' = -1 /\ lastElapsed' = -1
  /\ sinceCheck' = 0
  /\ rpc' = "read"
  /\ UNCHANGED <<rclock, frame>>
  /\ UNCHANGED fwVars /\ UNCHANGED busVars /\ UNCHANGED pollVars

\* Loop body: one ArduinoSerial->read(); a negative result continues with
\* the loop condition, a byte is stored and may end the loop.
RecvRead ==
  /\ rpc = "read"
  /\ \E in \in Bytes \cup {-1} :
       IF in < 0
       THEN /\ rpc' = "check"
            /\ UNCHANGED <<nread, RcvBuf>>
       ELSE /\ RcvBuf' = Append(RcvBuf, in)
            /\ nread' = nread + 1
            /\ rpc' = IF BreakAfterByte(in = CR, nread + 1) THEN "fwd" ELSE "check"
  /\ UNCHANGED <<rclock, startTime, sinceCheck, lastElapsed, forwarded, frame, nulIndex, calls>>
  /\ UNCHANGED fwVars /\ UNCHANGED busVars /\ UNCHANGED pollVars

\* The loop condition: millis() - startTime < MEPORT_SET_AND_QUERY_TIMEOUT.
RecvCheck ==
  /\ rpc = "check"
  /\ lastElapsed' = U32Small(U32Sub(rclock, startTime))
  /\ sinceCheck' = 0
  /\ rpc' = IF LoopAgain(rclock, startTime) THEN "read" ELSE "fwd"
  /\ UNCHANGED <<rclock, startTime, nread, RcvBuf, forwarded, frame, nulIndex, calls>>
  /\ UNCHANGED fwVars /\ UNCHANGED busVars /\ UNCHANGED pollVars

\* After the loop: terminate and forward a non-empty frame, then return.
RecvReturn ==
  /\ rpc = "fwd"
  /\ IF ForwardFrame(nread)
     THEN /\ nulIndex' = nread
          /\ frame' = RcvBuf
          /\ forwarded' = forwarded + 1
     ELSE UNCHANGED <<nulIndex, frame, forwarded>>
  /\ rpc' = "done"
  /\ UNCHANGED <<rclock, startTime, nread, RcvBuf, sinceCheck, lastElapsed, calls>>
  /\ UNCHANGED fwVars /\ UNCHANGED busVars /\ UNCHANGED pollVars

\* One millisecond passes.  A loop iteration takes at most MaxStepMs, and at
\* most that much time passes between two calls.
RecvClockTick ==
  /\ rpc # "fwd"
  /\ sinceCheck < MaxStepMs
  /\ sinceCheck' = sinceCheck + 1
  /\ rclock' = U32Inc(rclock)
  /\ UNCHANGED <<rpc, startTime, nread, RcvBuf, lastElapsed, forwarded, frame, nulIndex, calls>>
  /\ UNCHANGED fwVars /\ UNCHANGED busVars /\ UNCHANGED pollVars

\* Clock readings at which the first call is made: after power-up and just
\* before millis() wraps.
RecvStartTimes == {U32(0, 0), U32(65535, 65534)}

InitRecv ==
  /\ fw = "sensor" /\ Boot({<<>>})
  /\ \E t \in RecvStartTimes : RecvIdleAt(t)

NextRecv ==
  \/ RecvCall
  \/ RecvRead
  \/ RecvCheck
  \/ RecvReturn
  \/ RecvClockTick

\* The bus adapter's receive function, called MaxCalls times.
SpecRecv == InitRecv /\ [][NextRecv]_vars

\* The same with a running clock and a running processor.
SpecRecvFair ==
  /\ InitRecv /\ [][NextRecv]_vars
  /\ WF_vars(RecvClockTick) /\ WF_vars(RecvRead) /\ WF_vars(RecvCheck) /\ WF_vars(RecvReturn)



\* ---------------------------------------------------------- bus send (RS485)
\* Lengths of the frames the protocol client sends.
FrameLens == {1, 2}

\* ArduinoSerial_Send, line 46: setRS485Mode(RS485_TRANSMIT).  The protocol
\* client calls it from the main program only, so never during a receive.
SendCall ==
  /\ pc # "setup" /\ spc = "idle" /\ rpc \in {"idle", "done"}
  /\ sends < MaxSends
  /\ sends' = sends + 1
  /\ dirPin' = setRS485Mode(RS485_TRANSMIT, dirPin)
  /\ txSent' = 0
  /\ spc' = "write"
  /\ UNCHANGED <<txQueue, txLost>>
  /\ UNCHANGED fwVars /\ UNCHANGED recvVars /\ UNCHANGED pollVars

\* Line 47: ArduinoSerial->write(buffer) hands the frame to the UART.
SendWrite ==
  /\ spc = "write"
  /\ \E n \in FrameLens : txQueue' = txQueue + n
  /\ spc' = "flush"
  /\ UNCHANGED <<dirPin, txSent, txLost, sends>>
  /\ UNCHANGED fwVars /\ UNCHANGED recvVars /\ UNCHANGED pollVars

\* The UART puts the next written byte on the bus; the transceiver drives
\* the bus only while the direction pin is at transmit level.
UartShift ==
  /\ txQueue > 0
  /\ txQueue' = txQueue - 1
  /\ IF dirPin = RS485_TX_LEVEL
     THEN txSent' = txSent + 1 /\ UNCHANGED txLost
     ELSE txLost' = 1 /\ UNCHANGED txSent
  /\ UNCHANGED <<dirPin, spc, sends>>
  /\ UNCHANGED fwVars /\ UNCHANGED recvVars /\ UNCHANGED pollVars

\* Line 48: ArduinoSerial->flush() returns.
SendFlush ==
  /\ spc = "flush"
  /\ FlushDone(txQueue)
  /\ spc' = "release"
  /\ UNCHANGED <<dirPin, txQueue, txSent, txLost, sends>>
  /\ UNCHANGED fwVars /\ UNCHANGED recvVars /\ UNCHANGED pollVars

\* Line 49: setRS485Mode(RS485_RECEIVE), and the return.
SendRelease ==
  /\ spc = "release"
  /\ dirPin' = setRS485Mode(RS485_RECEIVE, dirPin)
  /\ spc' = "idle"
  /\ UNCHANGED <<txQueue, txSent, txLost, sends>>
  /\ UNCHANGED fwVars /\ UNCHANGED recvVars /\ UNCHANGED pollVars

\* A receive call of the protocol client, made when no send is running.
BusRecvCall == pc # "setup" /\ spc = "idle" /\ calls < MaxBusCalls /\ RecvCall

InitBus == fw = "sensor" /\ Boot({<<>>}) /\ RecvIdle

NextBus ==
  \/ SetupStart
  \/ SendCall
  \/ SendWrite
  \/ UartShift
  \/ SendFlush
  \/ SendRelease
  \/ BusRecvCall
  \/ RecvRead
  \/ RecvCheck
  \/ RecvReturn
  \/ RecvClockTick

\* The bus adapter after the pin set-up of setup(): sends and receives of
\* the protocol client, one at a time.
SpecBus == InitBus /\ [][NextBus]_vars


\* =================================================================== claims
\* ------------------------------------------------- vocabulary of the claims
\* Index of the first white-space character of s, 0 when there is none.
FirstSpace(s) ==
  IF \E i \in 1..Len(s) : isspace(s[i])
  THEN CHOOSE i \in 1..Len(s) : isspace(s[i]) /\ \A j \in 1..(i - 1) : ~isspace(s[j])
  ELSE 0
\* The first white-space-delimited token of a line, upper-cased, and what
\* follows it.
LineToken(line) ==
  LET l == SkipSpace(line) k == FirstSpace(l)
  IN UpperStr(IF k > 0 THEN SubSeq(l, 1, k - 1) ELSE l)
LineRest(line) ==
  LET l == SkipSpace(line) k == FirstSpace(l)
  IN IF k > 0 THEN SubSeq(l, k, Len(l)) ELSE <<>>

AllDigits(s) == s # <<>> /\ \A i \in 1..Len(s) : IsDigit(s[i])
IsIntLiteral(a) == AllDigits(NumBody(a))
IsFloatLiteral(a) ==
  LET b == NumBody(a) k == IndexOf(b, ".")
  IN IF k = 0 THEN AllDigits(b)
     ELSE AllDigits(SubSeq(b, 1, k - 1)) /\ AllDigits(SubSeq(b, k + 1, Len(b)))

\* The verb table of each firmware and the verb the dispatcher matched.
VerbTable(f) ==
  IF f = "sensor" THEN KnownVerbs ELSE KnownVerbs \ {V_SETPWR, V_SETPOWER}
Parsed(f, line) == IF f = "sensor" THEN SensorParse(line) ELSE ArParse(line)
Recognized(f, line) == ~Parsed(f, line).empty /\ Parsed(f, line).verb \in VerbTable(f)
\* The argument is valid for the matched verb: a number where one is needed.
ArgValid(f, line) ==
  LET p == Parsed(f, line) IN
  IF p.verb \in {V_SETC, V_SETT} THEN p.hasArg /\ IsFloatLiteral(SkipSpace(p.arg))
  ELSE IF p.verb \in {V_SETPWR, V_SETPOWER} THEN p.hasArg /\ IsIntLiteral(p.arg)
  ELSE TRUE
AllWritesOk == \A i \in 1..Len(writes) : writes[i].rc = 1

\* The parameter behind each column of a row, 0 for a column that is no
\* parameter read, and the columns printed as long.
RowPars(f) ==
  <<105, 106, 107, 0, 1100, 1101, 1102, 1104, 1105, 1402, 1010, 1011, 1012,
    1020, 1021, 1000, 1001, 1502, 1500, 1600, 1601>>
  \o (IF f = "sensor"
      THEN <<1200, 1201, 1202, 1203, 1204, 1300, 1301, 0, 0, 0, 0, 0, 0>>
      ELSE <<1060, 1061, 1062, 1063, 1064, 1065, 1066>>)
LongPars == {105, 106, 107, 1102, 1502}
Rows == {out[i] : i \in {j \in 1..Len(out) : out[j].kind = "row"}}
COL_PRESSURE == 30
COL_STATUS == 34

\* ---------------------------------------------------------------------- C1
\* C1: the CSV header and every telemetry row have the same number of
\* comma-separated fields, whichever reads failed.
C1_HeaderRowSameFieldCount ==
  \A r \in Rows : Len(r.fields) = Len(Header(fw).words)

\* ---------------------------------------------------------------------- C2
\* C2: the CSV header is printed exactly once, during start-up, before every
\* telemetry row (periodic or GET-triggered), and never again.
C2_HeaderOnceBeforeRows ==
  /\ headerCount <= 1
  /\ Count(out, "header") <= headerCount
  /\ (pc \in {"poll", "tick"} => headerCount = 1)
  /\ (pc \in {"setup", "setup2"} => headerCount = 0 /\ rowCount = 0 /\ Rows = {})
  /\ (rowCount > 0 \/ Rows # {} => headerCount = 1 /\ Count(out, "header") = 0)

\* A GET-triggered row follows a periodic one, after the single header.
C2_Witness ==
  /\ fw = "ar_clean" /\ io.op = "cmd" /\ Rows # {} /\ rowCount >= 2 /\ headerCount = 1

\* ---------------------------------------------------------------------- C3
\* C3 as stated: a line whose verb the dispatcher recognizes and whose
\* argument is valid gets exactly one "OK " line and no "ERR " line.
C3_RecognizedValidGivesOneOk ==
  (io.op = "cmd" /\ Recognized(fw, io.line) /\ ArgValid(fw, io.line))
    => (Count(out, "OK") = 1 /\ Count(out, "ERR") = 0)

\* C3 amended: such a line gets exactly one reply line; it is an "OK " line
\* when the command issues no parameter write or its write returns ok, and
\* the "ERR <verb>" line when the write of RESET, SETC or SETT is rejected.
C3_OneReplyOkUnlessWriteRejected ==
  (io.op = "cmd" /\ Recognized(fw, io.line) /\ ArgValid(fw, io.line))
    => /\ Count(out, "OK") + Count(out, "ERR") = 1
       /\ Len(writes) <= 1
       /\ (AllWritesOk => Count(out, "OK") = 1)
       /\ (~AllWritesOk => out = <<Reply("ERR", <<IF writes[1].par = PAR_RESET THEN "RESET"
                                                   ELSE IF writes[1].par = PAR_SETC THEN "SETC" ELSE "SETT">>)>>)

\* A SETT with a valid argument whose write was accepted.
C3_Witness ==
  /\ io.op = "cmd" /\ Recognized(fw, io.line) /\ ArgValid(fw, io.line)
  /\ Parsed(fw, io.line).verb = V_SETT
  /\ Len(writes) = 1 /\ AllWritesOk /\ Count(out, "OK") = 1

\* ---------------------------------------------------------------------- C4
MissingArgVerbs(f) ==
  IF f = "sensor" THEN {V_SETC, V_SETT, V_SETPWR, V_SETPOWER} ELSE {V_SETC, V_SETT}
\* The line is one of these verbs alone or followed by white space only.
MissingArgLine(f, line) ==
  /\ LineToken(line) \in MissingArgVerbs(f)
  /\ \A i \in 1..Len(LineRest(line)) : isspace(LineRest(line)[i])
MissingValueName(line) ==
  IF LineToken(line) = V_SETC THEN "SETC"
  ELSE IF LineToken(line) = V_SETT THEN "SETT" ELSE "SETPWR"

\* C4: SETC, SETT, SETPWR/SETPOWER with no argument (verb alone or followed
\* by white space only) are answered "ERR <verb> missing_value"; no
\* parameter write is issued, setPumpSpeed is not called and the stored pump
\* speed is unchanged.
C4_MissingValueRejected ==
  [][(io'.op = "cmd" /\ MissingArgLine(fw, io'.line))
       => /\ out' = <<Reply("ERR", <<MissingValueName(io'.line), "missing_value">>)>>
          /\ writes' = <<>>
          /\ pumpCalls' = 0
          /\ currentSpeedPercent' = currentSpeedPercent
          /\ pwmValue' = pwmValue]_vars

\* ---------------------------------------------------------------------- C5
SetPwrLine(line) == fw = "sensor" /\ IsSetPwr(fw, line) /\ IsIntLiteral(SensorParse(line).arg)
Clamp100(n) == IF n < 0 THEN 0 ELSE IF n > 100 THEN 100 ELSE n
SetPwrDone(n) ==
  /\ currentSpeedPercent = Clamp100(n)
  /\ out = <<ReplyNum("OK", <<"SETPWR">>, PrintLong(Clamp100(n)))>>
  /\ pumpCalls = 1

\* C5 as stated: for every integer argument n, SETPWR stores
\* min(max(n, 0), 100) and replies "OK SETPWR <stored value>".
C5_SetPwrClampsEveryInteger ==
  (io.op = "cmd" /\ SetPwrLine(io.line))
    => SetPwrDone(AtoiExact(SensorParse(io.line).arg))

\* C5 amended: the same for every integer argument that fits an int
\* (-32768 .. 32767).
C5_SetPwrClampsEveryInt ==
  (/\ io.op = "cmd" /\ SetPwrLine(io.line)
   /\ AtoiExact(SensorParse(io.line).arg) \in INT_MIN..INT_MAX)
    => SetPwrDone(AtoiExact(SensorParse(io.line).arg))

\* SETPWR 150 was stored as 100.
C5_Witness ==
  /\ io.op = "cmd" /\ SetPwrLine(io.line)
  /\ AtoiExact(SensorParse(io.line).arg) = 150
  /\ currentSpeedPercent = 100

\* ---------------------------------------------------------------------- C6
\* C6: every parameter read of a telemetry cycle that fails puts the typed
\* sentinel in the row: "nan" in a float column, -1 in a column printed as
\* long (error triple, LDD_ActualOutputCurrentRaw, AnalogVoltageInputRawADC);
\* the row is emitted all the same.
C6_FailedReadGivesSentinel ==
  /\ io.op = "tick" => Cardinality(Rows) = 1
  /\ \A r \in Rows : \A c \in 1..Len(r.fields) :
       (c <= Len(RowPars(fw)) /\ RowPars(fw)[c] \in io.fail)
         => r.fields[c] = (IF RowPars(fw)[c] \in LongPars THEN PrintLong(-1) ELSE PrintText("nan"))

\* ---------------------------------------------------------------------- C7
\* C7: with a non-zero 2-bit status in the SPI reply the pressure field is
\* the token "nan" and the pressure_status field carries that status; with
\* status 0 the pressure field is the calibrated value: P_min * 1000 mb
\* (0.0) at raw count Out_min, P_max * 1000 mb (1600.0) at Out_max.
C7_PressureFieldFollowsStatus ==
  (fw = "sensor" /\ io.op = "tick") =>
    \A r \in Rows :
      LET st == io.byte1 \div 64
          raw == (io.byte1 % 64) * 256 + io.byte2
      IN /\ r.fields[COL_STATUS] = PrintLong(st)
         /\ (st # 0 => r.fields[COL_PRESSURE] = PrintText("nan"))
         /\ (st = 0 => r.fields[COL_PRESSURE].txt = "num" /\ r.fields[COL_PRESSURE].prec = 1)
         /\ (st = 0 /\ raw = Out_min => r.fields[COL_PRESSURE].v = P_min_mb * 10)
         /\ (st = 0 /\ raw = Out_max => r.fields[COL_PRESSURE].v = P_max_mb * 10)
         /\ (st = 0 /\ raw < Out_min => r.fields[COL_PRESSURE].v < P_min_mb * 10)

\* A row with pressure status 2 and the "nan" token.
C7_Witness ==
  /\ fw = "sensor" /\ io.op = "tick" /\ io.byte1 \div 64 = 2
  /\ \E r \in Rows : r.fields[COL_PRESSURE] = PrintText("nan") /\ r.fields[COL_STATUS] = PrintLong(2)

\* ---------------------------------------------------------------------- C8
\* C8: ArduinoSerial_recvData always returns.  The loop goes round only
\* while the elapsed time is below MEPORT_SET_AND_QUERY_TIMEOUT, so with no
\* byte at all it returns at the first check at which the elapsed time has
\* reached the timeout, and with any arrival pattern it returns after
\* finitely many steps.
C8_RecvTerminates ==
  /\ (rpc \in {"read", "check", "fwd"}) ~> (rpc = "done")
  /\ [](rpc = "read" /\ lastElapsed # -1 => lastElapsed < MEPORT_SET_AND_QUERY_TIMEOUT)
  /\ [](rpc = "done" /\ nread = 0 => lastElapsed >= MEPORT_SET_AND_QUERY_TIMEOUT)

\* A call that saw no byte has returned on the timeout, the clock having
\* wrapped during the call.
C8_Witness ==
  /\ rpc = "done" /\ nread = 0 /\ lastElapsed >= MEPORT_SET_AND_QUERY_TIMEOUT
  /\ startTime.hi = 65535 /\ rclock.hi = 0

\* ---------------------------------------------------------------------- C9
HasCR(s) == \E i \in 1..Len(s) : s[i] = CR
\* C9: the receive loop stops at the first of: a carriage return read (kept
\* as last byte), MEPORT_MAX_RX_BUF_SIZE bytes read, the timeout elapsed.
\* The forwarded frame is at most MEPORT_MAX_RX_BUF_SIZE long, has no byte
\* after its first carriage return, the terminating 0 is stored inside the
\* buffer of MEPORT_MAX_RX_BUF_SIZE + 1 bytes, and a full buffer is
\* forwarded like any other frame.
C9_RecvFrameBounded ==
  /\ Len(RcvBuf) = nread /\ nread <= MEPORT_MAX_RX_BUF_SIZE
  /\ \A i \in 1..(nread - 1) : RcvBuf[i] # CR
  /\ (rpc \in {"read", "check"} => ~HasCR(RcvBuf) /\ nread < MEPORT_MAX_RX_BUF_SIZE)
  /\ (rpc = "read" /\ lastElapsed # -1 => lastElapsed < MEPORT_SET_AND_QUERY_TIMEOUT)
  /\ (rpc \in {"fwd", "done"} =>
        \/ (nread > 0 /\ RcvBuf[nread] = CR)
        \/ nread = MEPORT_MAX_RX_BUF_SIZE
        \/ lastElapsed >= MEPORT_SET_AND_QUERY_TIMEOUT)
  /\ (rpc = "done" /\ nread > 0 =>
        /\ frame = RcvBuf /\ forwarded = 1
        /\ nulIndex = nread /\ nulIndex <= MEPORT_MAX_RX_BUF_SIZE)
  /\ Len(frame) <= MEPORT_MAX_RX_BUF_SIZE
  /\ \A i \in 1..(Len(frame) - 1) : frame[i] # CR

\* A full buffer without terminator was forwarded.
C9_Witness ==
  /\ rpc = "done" /\ nread = MEPORT_MAX_RX_BUF_SIZE /\ ~HasCR(RcvBuf)
  /\ frame = RcvBuf /\ forwarded = 1

\* ---------------------------------------------------------------------- C10
\* C10: MePort_ReceiveByte is called exactly when at least one byte was read
\* during the call, and at most once per call; a receive that collected no
\* byte forwards nothing.
C10_ForwardIffNonEmpty ==
  /\ forwarded <= 1
  /\ (rpc \in {"read", "check", "fwd"} => forwarded = 0)
  /\ (rpc = "done" => (forwarded = 1 <=> nread > 0))

\* A call that timed out with no byte has returned without forwarding,
\* after an earlier call forwarded a frame.
C10_Witness ==
  /\ rpc = "done" /\ nread = 0 /\ forwarded = 0 /\ calls = 2 /\ frame # <<>>

\* ---------------------------------------------------------------------- C11
\* C11: ArduinoSerial_Send has the direction pin at transmit level before
\* the first byte is written and until the write is fully flushed, so that
\* every byte goes out at transmit level; after the pin set-up of setup()
\* the pin is at receive level whenever no send is in progress, in
\* particular during every receive.
C11_DirectionFollowsSend ==
  /\ (spc \in {"write", "flush", "release"} => dirPin = RS485_TX_LEVEL)
  /\ (txQueue > 0 => dirPin = RS485_TX_LEVEL /\ spc \in {"flush"})
  /\ txLost = 0
  /\ (spc = "release" => txQueue = 0)
  /\ (pc # "setup" /\ spc = "idle" => dirPin = RS485_RX_LEVEL)
  /\ (rpc \in {"read", "check", "fwd"} => spc = "idle" /\ dirPin = RS485_RX_LEVEL)

\* A receive is running after a two-byte frame went out at transmit level.
C11_Witness ==
  /\ rpc = "read" /\ sends = 1 /\ txSent = 2 /\ txQueue = 0
  /\ spc = "idle" /\ dirPin = RS485_RX_LEVEL

\* ---------------------------------------------------------------------- C12
COL_RPM == 29
\* C12: at each telemetry tick of sensor.ino pump_rpm is
\* delta * 60 / PULSES_PER_REV, delta being the pulses counted since the
\* previous tick, which becomes the new reference; with delta equal to
\* PULSES_PER_REV over exactly one period the RPM is 60 / (period in s).
C12_TachRate ==
  [][(fw = "sensor" /\ pc = "tick" /\ io'.op = "tick")
       => LET delta == U32Small(U32Sub(fgPulses, lastPulses))
              row == out'[1]
          IN /\ row.kind = "row"
             /\ row.fields[COL_RPM].txt = "num"
             /\ row.fields[COL_RPM].v * PULSES_PER_REV = delta * 60
             /\ lastPulses' = fgPulses /\ fgPulses' = fgPulses
             /\ (delta = PULSES_PER_REV /\ clock' - lastPrint = Period(fw)
                   => row.fields[COL_RPM].v * Period(fw) = 60 * 1000)]_vars

\* A tick exactly one period after the previous one, PULSES_PER_REV pulses
\* later: the row shows 60 RPM.
C12_Witness ==
  /\ fw = "sensor" /\ io.op = "tick" /\ rowCount = 2
  /\ fgPulses = U32(0, 2 * PULSES_PER_REV) /\ lastPulses = fgPulses
  /\ clock = SetupDelay1 + SetupDelay2(fw) + 2 * Period(fw)
  /\ \E r \in Rows : r.fields[COL_RPM] = [txt |-> "num", v |-> 60, prec |-> 0]

\* ---------------------------------------------------------------------- C13
COL_TEMP == 31
COL_HUM == 32
\* A telemetry cycle of sensor.ino is being made by this step.
SensorTickStep == fw = "sensor" /\ pc = "tick" /\ io'.op = "tick"
\* What the I2C poll of the latest cycle delivered.
PolledPair == readHDCData(io.hdc.et, io.hdc.got, io.hdc.bytes, io.lowFirst, NAN, NAN)

\* C13: (lastTemperature, lastHumidity) is (-40.0, 0.0) until the first
\* successful I2C poll and then the values of the most recent successful
\* poll: a successful poll stores its values, a failed poll and every other
\* step leave the pair unchanged, and the row of each tick prints the pair
\* as it is after the poll.
C13_EnvCache ==
  /\ [](rowCount = 0 => lastTemperature = Float(-40000) /\ lastHumidity = Float(0))
  /\ [](fw = "sensor" /\ io.op = "tick" =>
          /\ io.hdcOk = PolledPair.ok
          /\ (io.hdcOk => lastTemperature = PolledPair.temp /\ lastHumidity = PolledPair.hum)
          /\ \A r \in Rows : /\ r.fields[COL_TEMP] = PrintFloat(lastTemperature, 1)
                              /\ r.fields[COL_HUM] = PrintFloat(lastHumidity, 1))
  /\ [][(SensorTickStep /\ ~io'.hdcOk) \/ ~SensorTickStep
          => lastTemperature' = lastTemperature /\ lastHumidity' = lastHumidity]_vars

\* A failed poll after a successful one: the row repeats the cached pair,
\* which is no longer the initial one.
C13_Witness ==
  /\ fw = "sensor" /\ io.op = "tick" /\ ~io.hdcOk /\ rowCount = 2
  /\ lastTemperature # Float(-40000)
  /\ \E r \in Rows : r.fields[COL_TEMP] = PrintFloat(lastTemperature, 1)

\* ---------------------------------------------------------------------- C14
\* C14: whatever fails (parameter reads, writes, pressure status, I2C polls,
\* malformed commands), as long as every call returns and time passes, the
\* main loop goes on iterating and telemetry rows are emitted again and
\* again.
C14_RowsForEver ==
  []<>(pc = "poll" /\ io.op = "tick" /\ Rows # {})

\* A row was emitted in a cycle in which every parameter read failed, the
\* pressure status was non-zero and the I2C poll failed, after a rejected
\* write or a malformed command, and after the clock has wrapped.
C14_Witness ==
  /\ fw = "sensor" /\ io.op = "tick" /\ Rows # {}
  /\ io.fail = SensorPars /\ io.byte1 \div 64 # 0 /\ ~io.hdcOk
  /\ host = <<>> /\ lastPrint < Period(fw) /\ rowCount >= 2

\* ---------------------------------------------------------------------- C15
\* The dispatcher matched a verb that takes a number, and the argument is
\* there but is no number.
InvalidNumberLine(f, line) ==
  LET p == Parsed(f, line) IN
  /\ ~p.empty /\ p.verb \in MissingArgVerbs(f)
  /\ p.hasArg /\ SkipSpace(p.arg) # <<>>
  /\ ~IsFloatLiteral(DropTrailingSpace(SkipSpace(p.arg)))

\* C15: SETC, SETT, SETPWR/SETPOWER with an argument that is not a valid
\* number are answered with a single "ERR ..." line; no parameter write is
\* issued and the pump speed is not changed.
C15_InvalidNumberRejected ==
  [][(pc = "poll" /\ io'.op = "cmd" /\ InvalidNumberLine(fw, io'.line))
       => /\ Len(out') = 1 /\ out'[1].kind = "ERR"
          /\ writes' = <<>>
          /\ pumpCalls' = 0
          /\ currentSpeedPercent' = currentSpeedPercent
          /\ pwmValue' = pwmValue]_vars

\* ---------------------------------------------------------------------- C16
\* The dispatcher is running a write-backed command: RESET, or SETC / SETT
\* with an argument.
WriteBacked(f, line) ==
  LET p == Parsed(f, line) IN
  /\ ~p.empty
  /\ (p.verb = V_RESET \/ (p.verb \in {V_SETC, V_SETT} /\ p.hasArg))
\* The one write the command has to issue, but for its result.
ExpectedWrite(f, line, rc) ==
  LET p == Parsed(f, line) IN
  IF p.verb = V_RESET THEN [par |-> 111, inst |-> INST_COMMON, kind |-> "long", l |-> 1, f |-> NAN, rc |-> rc]
  ELSE [par |-> IF p.verb = V_SETC THEN 2102 ELSE 4000, inst |-> INST_MON,
        kind |-> "float", l |-> 0, f |-> atof(p.arg), rc |-> rc]
WriteName(f, line) ==
  LET p == Parsed(f, line) IN
  IF p.verb = V_RESET THEN "RESET" ELSE IF p.verb = V_SETC THEN "SETC" ELSE "SETT"

UnknownVerbLine(f, line) == SkipSpace(line) # <<>> /\ LineToken(line) \notin VerbTable(f)
\* What a command must leave alone when it changes no device state.
DeviceStateKept ==
  /\ currentSpeedPercent' = currentSpeedPercent /\ pwmValue' = pwmValue /\ pumpCalls' = 0
  /\ lastTemperature' = lastTemperature /\ lastHumidity' = lastHumidity
  /\ fgPulses' = fgPulses /\ lastPulses' = lastPulses
  /\ lastPrint' = lastPrint /\ rowCount' = rowCount

\* C17: a non-blank line whose verb is not in the verb table gets exactly
\* one line "ERR unknown_cmd <token>", <token> being the upper-cased first
\* token; no write is made and no device state changes.
C17_UnknownVerbEchoed ==
  [][(pc = "poll" /\ io'.op = "cmd" /\ UnknownVerbLine(fw, io'.line))
       => /\ out' = <<OutLine("ERR", <<"unknown_cmd">>, <<>>, LineToken(io'.line))>>
          /\ writes' = <<>>
          /\ DeviceStateKept]_vars

\* ---------------------------------------------------------------------- C18
\* C18: the verb is the first white-space-delimited token, matched without
\* regard to case: a recognized verb in any spelling, after any leading
\* spaces or tabs, followed by the end of the line or by a space or a tab
\* and an argument, is dispatched to its action with that argument.
C18_VerbParsing ==
  (/\ io.op = "cmd" /\ LineToken(io.line) \in VerbTable(fw)
   /\ (LineRest(io.line) = <<>> \/ Trim(LineRest(io.line)) # <<>>)) =>
    /\ Parsed(fw, io.line).verb = LineToken(io.line)
    /\ Trim(Parsed(fw, io.line).arg) = Trim(LineRest(io.line))
    /\ \A i \in 1..Len(out) : out[i].words # <<"unknown_cmd">>

\* ---------------------------------------------------------------------- C19
\* The dispatcher matched GET.
GetLine(f, line) == ~Parsed(f, line).empty /\ Parsed(f, line).verb = V_GET

\* C19: GET never fails and replies "OK GET".  In ar_clean.ino exactly one
\* full telemetry row goes out right before that line; in sensor.ino GET
\* emits no row.  In neither does GET change the last-emit time of the
\* periodic schedule.
C19_GetReply ==
  [][(pc = "poll" /\ io'.op = "cmd" /\ GetLine(fw, io'.line))
       => /\ out'[Len(out')] = Reply("OK", <<"GET">>)
          /\ Count(out', "ERR") = 0 /\ Count(out', "OK") = 1
          /\ (fw = "ar_clean" =>
                /\ Len(out') = 2 /\ out'[1].kind = "row"
                /\ Len(out'[1].fields) = Len(printHeader.words)
                /\ rowCount' = Sat(rowCount + 1))
          /\ (fw = "sensor" => Len(out') = 1 /\ rowCount' = rowCount)
          /\ writes' = <<>>
          /\ lastPrint' = lastPrint /\ clock' = clock]_vars

\* ar_clean.ino has answered a GET with a row and OK GET, after a periodic
\* row.
C19_Witness ==
  /\ fw = "ar_clean" /\ io.op = "cmd" /\ GetLine(fw, io.line)
  /\ Len(out) = 2 /\ out[1].kind = "row" /\ out[2] = Reply("OK", <<"GET">>)
  /\ lastPrint > 0

\* ---------------------------------------------------------------------- C20
\* C20: a command that ends in an "ERR" reply (missing value, unknown verb,
\* rejected write) leaves the commanded pump speed, the duty-cycle output,
\* the environmental cache, the tachometer state and the last-emit time
\* unchanged, and emits no telemetry row.
C20_ErrLeavesTelemetryAlone ==
  [][(pc = "poll" /\ io'.op = "cmd" /\ Count(out', "ERR") > 0)
       => /\ DeviceStateKept
          /\ Count(out', "row") = 0 /\ Len(out') = 1
          /\ clock' = clock /\ pc' = pc]_vars

\* A rejected SETT after a SETPWR 55: the speed is still 55.
C20_Witness ==
  /\ fw = "sensor" /\ io.op = "cmd" /\ out = <<Reply("ERR", <<"SETT">>)>>
  /\ Len(writes) = 1 /\ writes[1].rc = 0
  /\ currentSpeedPercent = 55 /\ pwmValue = setPumpSpeed(55)

\* ---------------------------------------------------------------------- C21
COL_POWER == 33
\* The line is SETPWR or SETPOWER followed by an argument.
SetPwrArgLine(line) == LineToken(line) \in {V_SETPWR, V_SETPOWER} /\ Trim(LineRest(line)) # <<>>
SetPwrArg(line) == Trim(LineRest(line))

\* C21: in sensor.ino the commanded speed is always within 0..100; a step
\* changes it only when it handles a SETPWR/SETPOWER line that carries an
\* argument, and then to the clamped argument; every other command and the
\* telemetry tick leave it as it is, and the power_pct field of every
\* periodic row is the stored value.
C21_PumpStateInvariant ==
  /\ [](fw = "sensor" => currentSpeedPercent \in 0..100)
  /\ [][fw = "sensor" =>
         /\ (pc = "poll" /\ io'.op = "cmd" /\ SetPwrArgLine(io'.line) /\ IsIntLiteral(SetPwrArg(io'.line)))
              => currentSpeedPercent' = Clamp100(AtoiExact(SetPwrArg(io'.line)))
         /\ ~(pc = "poll" /\ io'.op = "cmd" /\ SetPwrArgLine(io'.line))
              => currentSpeedPercent' = currentSpeedPercent
         /\ (pc = "tick" /\ io'.op = "tick")
              => \A i \in 1..Len(out') :
                   out'[i].kind = "row" => out'[i].fields[COL_POWER] = PrintLong(currentSpeedPercent)]_vars


\* ---------------------------------------------------------------------- C22
\* C22: whatever the interleaving of ISR_fg with the steps of the telemetry
\* tick, the deltas of all ticks so far add up (modulo 2^32) to the counter
\* value sampled at the latest tick, and that sample is never ahead of the
\* counter by a wrapped distance: each pulse is still to be counted
\* (fgPulses - lastPulses) or was counted in exactly one delta.
C22_NoPulseLost ==
  /\ dpSum = lastPulses
  /\ U32Less(U32Sub(fgPulses, lastPulses), MaxIsrPulses + 1)
  /\ (pc = "row" => U32Less(U32Sub(fgPulses, pulses), MaxIsrPulses + 1))

\* The counter has wrapped between two samples (from 2^32 - 2 to 0, a
\* delta of 2 that the row shows as 20 RPM) and a pulse came in after the
\* snapshot of the second: the sample is 0, the counter 1.
C22_Witness ==
  /\ pc = "poll" /\ io.op = "tick"
  /\ lastPulses = U32(0, 0) /\ fgPulses = U32(0, 1) /\ dpSum = U32(0, 0)
  /\ \E r \in Rows : r.fields[COL_RPM] = [txt |-> "num", v |-> 20, prec |-> 0]

\* ---------------------------------------------------------------------- C23
\* Everything but the pulse counter.
AllButFgPulses == <<fw, pc, host, out, writes, pumpCalls, io, currentSpeedPercent, pwmValue, lastTemperature, lastHumidity, lastPulses, clock, lastPrint, headerCount, rowCount, intEnabled, pulses, dpSum, recvVars, busVars, pollVars>>
\* The step talks to the bus or the host: a command is handled or a row is
\* built.
BusStep == io' # io /\ io'.op \in {"cmd", "tick"}

\* C23: fgPulses changes only by an increment of one in a step that changes
\* nothing else (ISR_fg); lastPulses is written only at the end of the
\* telemetry tick, with the snapshot; the snapshot is taken only with
\* interrupts disabled; interrupts are disabled in no state but the two
\* around that read, and every step with a bus operation starts and ends
\* with interrupts enabled.
C23_SharedCounterDiscipline ==
  /\ [](intEnabled <=> pc \notin {"read", "sei"})
  /\ [][/\ (fgPulses' # fgPulses) =>
             (fgPulses' = U32Inc(fgPulses) /\ intEnabled /\ AllButFgPulses' = AllButFgPulses)
        /\ (lastPulses' # lastPulses) => (pc = "row" /\ lastPulses' = pulses)
        /\ (pulses' # pulses) => (pc = "read" /\ ~intEnabled /\ pulses' = fgPulses)
        /\ (pc = "read" /\ pc' # pc) => (pc' = "sei" /\ ~intEnabled')
        /\ BusStep => (intEnabled /\ intEnabled')]_vars

\* The snapshot has just been taken, two pulses after the previous one,
\* and interrupts are still disabled.
C23_Witness ==
  /\ pc = "sei" /\ ~intEnabled
  /\ pulses = U32(0, 2) /\ fgPulses = pulses /\ lastPulses = U32(0, 0)

\* ---------------------------------------------------------------------- C24
\* now - last in the unsigned arithmetic of the clock.
ClockDiff(now, last) == (now - last) % ClockWrap(fw)

\* C24: a loop iteration emits a periodic row if and only if now - lastEmit,
\* taken in the unsigned arithmetic of the clock, is at least the period,
\* and then lastEmit becomes now; otherwise lastEmit stays.  So lastEmit is
\* the clock reading of the latest periodic row and the next one is at
\* least a period later, across the wrap of the clock as well, however late
\* the latest one was.
C24_PeriodicEmission ==
  [][(pc = "tick" /\ pc' = "poll") =>
       /\ (Count(out', "row") = 1) <=> (ClockDiff(clock', lastPrint) >= Period(fw))
       /\ Count(out', "row") \in {0, 1}
       /\ (Count(out', "row") = 1) => (lastPrint' = clock' /\ io'.op = "tick")
       /\ (Count(out', "row") = 0) => (lastPrint' = lastPrint)]_vars

\* A periodic row after the clock has wrapped, later than a period after
\* the previous row: the clock reading is below one period and is the new
\* reference.
C24_Witness ==
  /\ pc = "poll" /\ io.op = "tick" /\ Count(out, "row") = 1
  /\ lastPrint = clock /\ clock < Period(fw) /\ clock > 0

\* ---------------------------------------------------------------------- C25
\* C25: in every loop iteration pollUsbCommands returns and the period
\* check is reached, whatever the host sends, also when further bytes
\* become available while earlier lines are being handled.
C25_DrainFinishes == [](pc = "poll" => <>(pc = "tick"))

\* ---------------------------------------------------------------------- C26
StripCR(s) == SelectSeq(s, LAMBDA c : c # CH_CR)
FirstBytes(s, n) == SubSeq(s, 1, IF Len(s) < n THEN Len(s) ELSE n)
LineCapacity == IF fw = "sensor" THEN 127 ELSE 120

\* C26: the buffer never holds more than 127 bytes (sensor.ino) or 120
\* (ar_clean.ino); it holds the bytes read since the latest '\n' without
\* the '\r' bytes, cut at that capacity; a read of '\n' hands exactly that
\* to the dispatcher, once, and empties the buffer; any other read
\* dispatches nothing, and nothing but a read touches the buffer.
C26_LineAccumulation ==
  /\ [](Len(cmdBuf) <= LineCapacity)
  /\ [](cmdBuf = FirstBytes(StripCR(rawLine), LineCapacity))
  /\ [][/\ (reads' # reads /\ Head(rx) = CH_LF) =>
             (io'.op = "cmd" /\ io'.line = cmdBuf /\ cmdBuf' = <<>> /\ rawLine' = <<>>)
        /\ (reads' # reads /\ Head(rx) # CH_LF) =>
             (/\ rawLine' = Append(rawLine, Head(rx))
              /\ out' = <<>> /\ writes' = <<>> /\ io'.op = "none"
              /\ currentSpeedPercent' = currentSpeedPercent)
        /\ (reads' = reads) =>
             (cmdBuf' = cmdBuf /\ rawLine' = rawLine /\ (io'.op = "cmd" => io' = io))]_vars

\* sensor.ino has dispatched a line of 130 bytes cut to 127: the reply
\* echoes 127 bytes and the buffer is empty again.
C26_Witness ==
  /\ fw = "sensor" /\ io.op = "cmd" /\ Len(io.line) = 127
  /\ Len(out) = 1 /\ out[1].kind = "ERR" /\ Len(out[1].echo) = 127
  /\ cmdBuf = <<>> /\ rawLine = <<>>

\* ---------------------------------------------------------------------- C27
\* 255 - trunc(255 * c / 100) for the clamped input.
DutyOf(p) == 255 - ((255 * Clamp100(p)) \div 100)

\* C27: for every int p setPumpSpeed writes 255 - trunc(255 * c / 100) with
\* c = min(max(p, 0), 100): a value within 0..255, 255 for c = 0 and 0 for
\* c = 100, not above what any smaller input gives; and once setup is done
\* the duty written last is that mapping of the stored speed, after every
\* command.
C27_PumpMapping ==
  /\ io.op = "pump" =>
       /\ pwmValue = DutyOf(io.pct)
       /\ pwmValue \in 0..255
       /\ (io.pct <= 0 => pwmValue = 255) /\ (io.pct >= 100 => pwmValue = 0)
       /\ \A q \in PumpInputs : q <= io.pct => setPumpSpeed(q) >= pwmValue
  /\ (fw = "sensor" /\ pc \in {"poll", "tick"}) =>
       /\ currentSpeedPercent \in 0..100
       /\ pwmValue = DutyOf(currentSpeedPercent)

\* setPumpSpeed(55) wrote 115: 255 - trunc(140.25).
C27_Witness == pc = "pump" /\ io.op = "pump" /\ io.pct = 55 /\ pwmValue = 115

=============================================================================
